---- MODULE Spec2Model ----
(***************************************************************************)
(* A model of the trading pipeline of polymarket-bot: the risk manager     *)
(* (src/engine/risk.rs), the order manager (src/engine/order_manager.rs),  *)
(* the persistence it writes (src/adapters/database.rs), the venue client  *)
(* calls it makes (src/adapters/polymarket.rs), the kill endpoint          *)
(* (src/api/mod.rs) and the snapshot task and shutdown (src/main.rs).      *)
(*                                                                         *)
(* Numbers.  The program computes in binary64.  The model keeps money on   *)
(* an integer grid: bankrolls and max_exposure are whole dollars, prices   *)
(* are hundredths of a dollar (50 is 0.50), sizes are whole units, and a   *)
(* percentage p is the integer 100*p.  A comparison of quotients or        *)
(* products is cross-multiplied, which is exact on this grid:              *)
(*   size*price > bankroll*max_position_pct                                *)
(*       <=>  size*price100 > bankroll*pct100                              *)
(*   (peak-b)/peak > max_drawdown_pct                                      *)
(*       <=>  (peak-b)*100 > pct100*peak            (peak > 0)             *)
(* The values the model draws are chosen so that the binary64 results fall *)
(* on the same side of every comparison (500*0.05 and 50*0.5 are both      *)
(* 25.0, 180/600 rounds to the double of 0.30).                            *)
(* Timestamps (created_at, timestamp) are not modelled.                    *)
(***************************************************************************)
EXTENDS Integers, Sequences, FiniteSets, TLC

VARIABLES
    peak_bankroll,   \* RiskManager.peak_bankroll
    trading_active,  \* RiskManager.trading_active
    bankroll,        \* the shared Arc<RwLock<f64>> of main
    call,            \* the last call made on the RiskManager API and what it returned
    positions,       \* table positions
    orders,          \* table orders: id -> row
    trades,          \* table trades: id -> row
    pnl_snapshots,   \* table pnl_snapshots
    posted,          \* the post_order requests sent to the venue, in order
    venue_open,      \* ids of the orders resting at the venue
    next_uuid,       \* the ids Uuid::new_v4 has handed out so far
    hs,              \* the frame of OrderManager::handle_signal inside run
    log,             \* the handle_signal invocations that have returned
    ca,              \* the frame of OrderManager::cancel_all
    api,             \* the frame of the kill endpoint
    running,         \* FALSE once the process has shut down
    kills,           \* "cleared" once a kill request has emptied the venue's book
    market_bus,      \* broadcast::channel::<MarketData> of main
    signal_bus,      \* broadcast::channel::<Signal> of main
    feed,            \* the feed adapters: what each has sent
    agg,             \* the FeedAggregator: its maps and the frame of run
    run,             \* the frame of OrderManager::run around handle_signal
    adapter,         \* the frame of each feed adapter's run
    strat            \* the last call made on a strategy and what it returned

riskVars == <<peak_bankroll, trading_active>>
busVars == <<market_bus, signal_bus, feed, agg, run, adapter, strat>>
vars == <<peak_bankroll, trading_active, bankroll, call, positions, orders, trades,
          pnl_snapshots, posted, venue_open, next_uuid, hs, log, ca, api, running,
          kills, market_bus, signal_bus, feed, agg, run, adapter, strat>>

(***************************************************************************)
(* RiskConfig defaults (src/config.rs).                                    *)
(***************************************************************************)
max_position_pct == 5
max_drawdown_pct == 30
min_bankroll == 350
max_exposure == 100

(***************************************************************************)
(* Bounds and input sets.                                                  *)
(***************************************************************************)
MaxSignals == 2
MaxTicks == 1
MaxCancels == 2
MaxEvents == 2
MaxDelivered == 3
MaxSends == 2

\* starting_bankroll as configured: the default, and a value below min_bankroll.
StartingBankrolls == {330, 500}
\* Arguments of update_bankroll and check_signal: below the minimum, at it, past
\* the 30% drawdown from 600 (410), exactly at it (420), the start, a new peak.
Bankrolls == {340, 350, 410, 420, 500, 600}
\* total_exposure arguments, in hundredths of a dollar.
Exposures == {0, 7500, 8000}

Sig(side, price, size) ==
    [strategy |-> "latency_arb", market_id |-> "m1", side |-> side,
     confidence |-> 75, price |-> price, size |-> size]

\* 50 @ 0.50 is exactly 5% of 500; 60 @ 0.50 is above it; 10 @ 0.40 is small.
Signals == {Sig("Buy", 50, 50), Sig("Buy", 50, 60), Sig("Sell", 40, 10)}

NoSignal == [strategy |-> "none", market_id |-> "none", side |-> "Buy",
             confidence |-> 0, price |-> 0, size |-> 0]

(***************************************************************************)
(* RiskManager (src/engine/risk.rs).                                       *)
(***************************************************************************)
\* update_bankroll, lines 29-32: the watermark after the call.
update_peak(peak, current_bankroll) ==
    IF current_bankroll > peak THEN current_bankroll ELSE peak

\* update_bankroll, lines 45-46: drawdown > max_drawdown_pct, on the updated peak.
drawdown_exceeded(peak, current_bankroll) ==
    (peak - current_bankroll) * 100 > max_drawdown_pct * peak

\* Fault variant of update_bankroll_returns: the drawdown test with >= for >.
update_bankroll_returns_mut9(peak, current_bankroll) ==
    IF current_bankroll < min_bankroll THEN FALSE
    ELSE IF (peak - current_bankroll) * 100 >= max_drawdown_pct * peak THEN FALSE
    ELSE TRUE

\* update_bankroll, lines 35-58: the value returned.
update_bankroll_returns(peak, current_bankroll) ==
    IF current_bankroll < min_bankroll THEN FALSE
    ELSE IF drawdown_exceeded(peak, current_bankroll) THEN FALSE
    ELSE TRUE

\* Fault variant of update_bankroll: the flag is set to the value returned.
update_bankroll_mut7(current_bankroll) ==
    /\ peak_bankroll' = update_peak(peak_bankroll, current_bankroll)
    /\ trading_active' = update_bankroll_returns(peak_bankroll', current_bankroll)

\* Fault variant of update_bankroll: the peak is overwritten, not raised.
update_bankroll_mut8(current_bankroll) ==
    /\ peak_bankroll' = current_bankroll
    /\ trading_active' =
           IF update_bankroll_returns(peak_bankroll', current_bankroll)
           THEN trading_active ELSE FALSE

\* update_bankroll, lines 28-59, as a step on the RiskManager's fields.
update_bankroll(current_bankroll) ==
    /\ peak_bankroll' = update_peak(peak_bankroll, current_bankroll)
    /\ trading_active' =
           IF update_bankroll_returns(peak_bankroll', current_bankroll)
           THEN trading_active ELSE FALSE

\* Fault variant of check_signal: the exposure test with >= for >.
check_signal_mut10(active, signal, current_bankroll, total_exposure) ==
    IF ~active THEN FALSE
    ELSE IF current_bankroll < min_bankroll THEN FALSE
    ELSE IF signal.size * signal.price > current_bankroll * max_position_pct THEN FALSE
    ELSE IF total_exposure + signal.size * signal.price >= max_exposure * 100 THEN FALSE
    ELSE TRUE

\* Fault variant of check_signal: a bankroll in drawdown from the peak is rejected.
check_signal_mut36(active, signal, current_bankroll, total_exposure) ==
    IF ~active THEN FALSE
    ELSE IF current_bankroll < min_bankroll THEN FALSE
    ELSE IF drawdown_exceeded(peak_bankroll, current_bankroll) THEN FALSE
    ELSE IF signal.size * signal.price > current_bankroll * max_position_pct THEN FALSE
    ELSE IF total_exposure + signal.size * signal.price > max_exposure * 100 THEN FALSE
    ELSE TRUE

\* check_signal, lines 62-96: the value inside Ok(..).
check_signal(active, signal, current_bankroll, total_exposure) ==
    IF ~active THEN FALSE
    ELSE IF current_bankroll < min_bankroll THEN FALSE
    ELSE IF signal.size * signal.price > current_bankroll * max_position_pct THEN FALSE
    ELSE IF total_exposure + signal.size * signal.price > max_exposure * 100 THEN FALSE
    ELSE TRUE

\* Fault variant of kill: the switch is flipped instead of turned off.
kill_mut11 ==
    /\ trading_active' = ~trading_active
    /\ UNCHANGED peak_bankroll

\* kill, lines 102-105, and resume, lines 107-110.
kill == trading_active' = FALSE /\ UNCHANGED peak_bankroll

resume == trading_active' = TRUE /\ UNCHANGED peak_bankroll

\* The last call made on the RiskManager; since_resume records that resume was
\* called and neither update_bankroll nor kill has been called since.
NoCall == [op |-> "none", b |-> 0, signal |-> NoSignal, exposure |-> 0, ret |-> TRUE,
           since_resume |-> FALSE]

(***************************************************************************)
(* Persistence (src/adapters/database.rs).  Enumerations are stored as     *)
(* text and parsed back on reading.                                        *)
(***************************************************************************)
\* impl Display for Side (src/domain/mod.rs), used by insert_order and insert_trade.
side_to_string(side) == IF side = "Buy" THEN "BUY" ELSE "SELL"

\* From<OrderRow> for Order: side, order_type and status read back.
side_from_row(text) == IF text = "BUY" THEN "Buy" ELSE "Sell"

order_type_from_row(text) ==
    IF text = "GTD" THEN "GTD" ELSE IF text = "FOK" THEN "FOK" ELSE "GTC"

status_from_row(text) ==
    IF text \in {"Open", "Filled", "Cancelled", "Failed"} THEN text ELSE "Pending"

\* insert_order: the row written for an Order.
insert_order(table, order) ==
    table @@ (order.id :>
        [id |-> order.id, market_id |-> order.market_id,
         side |-> side_to_string(order.side), token_id |-> order.token_id,
         price |-> order.price, size |-> order.size,
         order_type |-> order.order_type, status |-> order.status])

\* update_order_status: UPDATE orders SET status = ? WHERE id = ?.
update_order_status(table, order_id, status) ==
    [id \in DOMAIN table |->
        IF id = order_id THEN [table[id] EXCEPT !.status = status] ELSE table[id]]

\* Fault variant of get_open_orders: WHERE status = 'Open'.
get_open_orders_mut12(table) ==
    {id \in DOMAIN table : table[id].status = "Open"}

\* get_open_orders: the ids of the rows WHERE status IN ('Pending', 'Open').
get_open_orders(table) ==
    {id \in DOMAIN table : table[id].status \in {"Pending", "Open"}}

\* insert_trade: the row written for a Trade.
insert_trade(table, trade) ==
    table @@ (trade.id :>
        [id |-> trade.id, order_id |-> trade.order_id, market_id |-> trade.market_id,
         side |-> side_to_string(trade.side), price |-> trade.price,
         size |-> trade.size, fee |-> trade.fee])

\* get_positions: the rows WHERE size > 0.
get_positions(table) == {p \in table : p.size > 0}

\* record_pnl_snapshot: one row appended.
record_pnl_snapshot(table, br, pnl_total) ==
    Append(table, [bankroll |-> br, pnl_total |-> pnl_total])

Pos(size, avg_price) ==
    [market_id |-> "m2", token_id |-> "t2", side |-> "BUY", size |-> size,
     avg_price |-> avg_price, current_price |-> avg_price, pnl |-> 0]

\* The positions table found at startup: empty, or one position worth 75.00 or 80.00.
PositionTables == {{}, {Pos(150, 50)}, {Pos(160, 50)}}

\* A position of 50 shares of the YES token of the market the latency
\* strategy trades, as the table positions of an earlier run of the program
\* holds it.
HeldPosition ==
    [market_id |-> "placeholder_market", token_id |-> "placeholder_yes_token",
     side |-> "BUY", size |-> 50, avg_price |-> 40, current_price |-> 40, pnl |-> 0]

\* upsert_position, lines 115-137: INSERT ... ON CONFLICT(market_id, token_id)
\* DO UPDATE, every other column taken from the new row.
upsert_position(table, pos) ==
    {p \in table : ~(p.market_id = pos.market_id /\ p.token_id = pos.token_id)}
        \cup {pos}

\* delete_position, lines 148-155: DELETE ... WHERE market_id = ? AND token_id = ?.
delete_position(table, market_id, token_id) ==
    {p \in table : ~(p.market_id = market_id /\ p.token_id = token_id)}

\* The Position values the store is called with: two markets of two tokens,
\* a size of 0, 50 or 150 at 0.40 or 0.50.
PositionArgs ==
    [market_id : {"m1", "m2"}, token_id : {"t1", "t2"}, side : {"BUY"},
     size : {0, 50, 150}, avg_price : {40, 50}, current_price : {50}, pnl : {0}]

\* One call of upsert_position; the statement may fail and change nothing.
UpsertPosition ==
    /\ \E pos \in PositionArgs, ok \in BOOLEAN :
         positions' = IF ok THEN upsert_position(positions, pos) ELSE positions
    /\ UNCHANGED <<peak_bankroll, trading_active, bankroll, call, orders, trades,
                   pnl_snapshots, posted, venue_open, next_uuid, hs, log, ca, api,
                   running, kills>>
    /\ UNCHANGED busVars

\* One call of delete_position.
DeletePosition ==
    /\ \E market_id \in {"m1", "m2"}, token_id \in {"t1", "t2"}, ok \in BOOLEAN :
         positions' = IF ok THEN delete_position(positions, market_id, token_id)
                      ELSE positions
    /\ UNCHANGED <<peak_bankroll, trading_active, bankroll, call, orders, trades,
                   pnl_snapshots, posted, venue_open, next_uuid, hs, log, ca, api,
                   running, kills>>
    /\ UNCHANGED busVars

(***************************************************************************)
(* OrderManager (src/engine/order_manager.rs).                             *)
(***************************************************************************)
RECURSIVE SumExposure(_)
\* handle_signal, line 66: positions.iter().map(|p| p.size * p.avg_price).sum().
SumExposure(ps) ==
    IF ps = {} THEN 0
    ELSE LET p == CHOOSE q \in ps : TRUE
         IN  p.size * p.avg_price + SumExposure(ps \ {p})

\* handle_signal, lines 92-102: the Order minted for a signal.
new_order(id, signal) ==
    [id |-> id, market_id |-> signal.market_id, side |-> signal.side,
     token_id |-> signal.market_id, price |-> signal.price, size |-> signal.size,
     order_type |-> "GTC", status |-> "Pending"]

\* Fault variant of fee_estimate: 200 bps for 20 bps.
fee_estimate_mut4(order) == 20 * order.size * order.price

\* handle_signal, line 134: size * price * 0.002, in units of 0.00001 dollar.
fee_estimate(order) == 2 * order.size * order.price

\* handle_signal, lines 127-136: the Trade recorded for an accepted order.
new_trade(id, order) ==
    [id |-> id, order_id |-> order.id, market_id |-> order.market_id,
     side |-> order.side, price |-> order.price, size |-> order.size,
     fee |-> fee_estimate(order)]

\* The frame of handle_signal while the run loop waits in recv.
HsIdle ==
    [pc |-> "recv", signal |-> NoSignal, current_bankroll |-> 0, total_exposure |-> 0,
     order_id |-> 0, resp |-> "none", check |-> "none", uuid_from |-> 0]

\* handle_signal returns `result` to run (which logs an Err and goes on to recv).
Return(frame, result, uuid_to) ==
    /\ log' = Append(log,
           [signal |-> frame.signal, check |-> frame.check, post |-> frame.resp,
            result |-> result, order_id |-> frame.order_id,
            uuid_from |-> frame.uuid_from, uuid_to |-> uuid_to])
    /\ hs' = HsIdle

\* run, lines 42-43, and handle_signal, line 62: a signal is received and the
\* shared bankroll is read.
RecvSignal ==
    /\ running /\ hs.pc = "recv" /\ Len(log) < MaxSignals
    /\ \E s \in Signals :
         hs' = [HsIdle EXCEPT !.pc = "get_positions", !.signal = s,
                              !.current_bankroll = bankroll, !.uuid_from = next_uuid]
    /\ UNCHANGED <<peak_bankroll, trading_active, bankroll, call, positions, orders,
                   trades, pnl_snapshots, posted, venue_open, next_uuid, log, ca, api,
                   running>>
    /\ UNCHANGED <<kills, busVars>>

\* Fault variant of HsGetPositions: a failed get_positions returns Ok(()).
HsGetPositions_mut13 ==
    /\ running /\ hs.pc = "get_positions"
    /\ \/ Return(hs, "ok", next_uuid)
       \/ /\ hs' = [hs EXCEPT !.pc = "check_signal",
                              !.total_exposure = SumExposure(get_positions(positions))]
          /\ UNCHANGED log
    /\ UNCHANGED <<peak_bankroll, trading_active, bankroll, call, positions, orders,
                   trades, pnl_snapshots, posted, venue_open, next_uuid, ca, api, running>>
    /\ UNCHANGED <<kills, busVars>>

\* handle_signal, lines 65-66.
HsGetPositions ==
    /\ running /\ hs.pc = "get_positions"
    /\ \/ Return(hs, "err", next_uuid)
       \/ /\ hs' = [hs EXCEPT !.pc = "check_signal",
                              !.total_exposure = SumExposure(get_positions(positions))]
          /\ UNCHANGED log
    /\ UNCHANGED <<peak_bankroll, trading_active, bankroll, call, positions, orders,
                   trades, pnl_snapshots, posted, venue_open, next_uuid, ca, api, running>>
    /\ UNCHANGED <<kills, busVars>>

\* Fault variant of HsCheckSignal: a rejected signal is not returned on.
HsCheckSignal_mut2 ==
    /\ running /\ hs.pc = "check_signal"
    /\ IF check_signal(trading_active, hs.signal, hs.current_bankroll, hs.total_exposure)
       THEN hs' = [hs EXCEPT !.pc = "insert_order", !.check = "pass"]
       ELSE hs' = [hs EXCEPT !.pc = "insert_order", !.check = "reject"]
    /\ UNCHANGED <<peak_bankroll, trading_active, bankroll, call, positions, orders,
                   trades, pnl_snapshots, posted, venue_open, next_uuid, log, ca, api,
                   running>>
    /\ UNCHANGED <<kills, busVars>>

\* handle_signal, lines 69-75: check_signal, and the return on false.
HsCheckSignal ==
    /\ running /\ hs.pc = "check_signal"
    /\ IF check_signal(trading_active, hs.signal, hs.current_bankroll, hs.total_exposure)
       THEN hs' = [hs EXCEPT !.pc = "insert_order", !.check = "pass"] /\ UNCHANGED log
       ELSE Return([hs EXCEPT !.check = "reject"], "ok", next_uuid)
    /\ UNCHANGED <<peak_bankroll, trading_active, bankroll, call, positions, orders,
                   trades, pnl_snapshots, posted, venue_open, next_uuid, ca, api, running>>
    /\ UNCHANGED <<kills, busVars>>

\* Fault variant of HsInsertOrder: the Order is minted but not inserted.
HsInsertOrder_mut6 ==
    /\ running /\ hs.pc = "insert_order"
    /\ next_uuid' = next_uuid + 1
    /\ hs' = [hs EXCEPT !.pc = "post_order", !.order_id = next_uuid]
    /\ UNCHANGED <<orders, log>>
    /\ UNCHANGED <<peak_bankroll, trading_active, bankroll, call, positions, trades,
                   pnl_snapshots, posted, venue_open, ca, api, running>>
    /\ UNCHANGED <<kills, busVars>>

\* Fault variant of HsInsertOrder: a signal whose order is already in the table
\* is dropped.
HsInsertOrder_mut33 ==
    /\ running /\ hs.pc = "insert_order"
    /\ next_uuid' = next_uuid + 1
    /\ \/ Return([hs EXCEPT !.order_id = next_uuid], "err", next_uuid + 1) /\ UNCHANGED orders
       \/ IF \E id \in DOMAIN orders :
                 [orders[id] EXCEPT !.id = next_uuid, !.status = "Pending"]
                     = insert_order(<<>>, new_order(next_uuid, hs.signal))[next_uuid]
          THEN Return([hs EXCEPT !.order_id = next_uuid], "ok", next_uuid + 1)
                   /\ UNCHANGED orders
          ELSE /\ orders' = insert_order(orders, new_order(next_uuid, hs.signal))
               /\ hs' = [hs EXCEPT !.pc = "post_order", !.order_id = next_uuid]
               /\ UNCHANGED log
    /\ UNCHANGED <<peak_bankroll, trading_active, bankroll, call, positions, trades,
                   pnl_snapshots, posted, venue_open, ca, api, running>>
    /\ UNCHANGED <<kills, busVars>>

\* handle_signal, lines 92-104: the Order is minted and inserted in status
\* Pending; an insert that fails returns the error.
HsInsertOrder ==
    /\ running /\ hs.pc = "insert_order"
    /\ next_uuid' = next_uuid + 1
    /\ \/ Return([hs EXCEPT !.order_id = next_uuid], "err", next_uuid + 1) /\ UNCHANGED orders
       \/ /\ orders' = insert_order(orders, new_order(next_uuid, hs.signal))
          /\ hs' = [hs EXCEPT !.pc = "post_order", !.order_id = next_uuid]
          /\ UNCHANGED log
    /\ UNCHANGED <<peak_bankroll, trading_active, bankroll, call, positions, trades,
                   pnl_snapshots, posted, venue_open, ca, api, running>>
    /\ UNCHANGED <<kills, busVars>>

\* The request post_order sends for the minted order (polymarket.rs, lines 193-215).
post_request(order, outcome) ==
    [order_id |-> order.id, token_id |-> order.token_id, price |-> order.price,
     size |-> order.size, side |-> side_to_string(order.side),
     order_type |-> order.order_type, outcome |-> outcome]

\* handle_signal, lines 107-117: post_order answers success=true ("accepted"),
\* success=false ("rejected") or fails ("error"); a request that failed may
\* still have reached the venue.
HsPostOrder ==
    /\ running /\ hs.pc = "post_order"
    /\ \E outcome \in {"accepted", "rejected", "error"} :
         /\ posted' = Append(posted, post_request(new_order(hs.order_id, hs.signal), outcome))
         /\ hs' = [hs EXCEPT !.pc = "update_status", !.resp = outcome]
         /\ \/ outcome \in {"accepted", "error"} /\ venue_open' = venue_open \cup {hs.order_id}
            \/ outcome \in {"rejected", "error"} /\ venue_open' = venue_open
    /\ UNCHANGED <<peak_bankroll, trading_active, bankroll, call, positions, orders,
                   trades, pnl_snapshots, next_uuid, log, ca, api, running>>
    /\ UNCHANGED <<kills, busVars>>

\* Fault variant of status_after_post: Open whatever the answer.
status_after_post_mut5(resp) == "Open"

\* handle_signal, lines 118-124 and 138-151: the status the answer leads to.
status_after_post(resp) == IF resp = "accepted" THEN "Open" ELSE "Failed"

\* Fault variant of HsUpdateStatus: after a transport error the order is posted
\* once more instead of being marked Failed.
HsUpdateStatus_mut16 ==
    /\ running /\ hs.pc = "update_status"
    /\ \/ Return(hs, "err", next_uuid) /\ UNCHANGED orders
       \/ IF hs.resp = "error" /\ Cardinality({i \in 1..Len(posted) :
                                      posted[i].order_id = hs.order_id}) < 2
          THEN hs' = [hs EXCEPT !.pc = "post_order"] /\ UNCHANGED <<orders, log>>
          ELSE /\ orders' = update_order_status(orders, hs.order_id,
                                status_after_post(hs.resp))
               /\ IF hs.resp = "accepted"
                  THEN hs' = [hs EXCEPT !.pc = "insert_trade"] /\ UNCHANGED log
                  ELSE Return(hs, "ok", next_uuid)
    /\ UNCHANGED <<peak_bankroll, trading_active, bankroll, call, positions, trades,
                   pnl_snapshots, posted, venue_open, next_uuid, ca, api, running>>
    /\ UNCHANGED <<kills, busVars>>

\* Fault variant of HsUpdateStatus: a failed update to Open is dropped and the
\* Trade is inserted all the same.
HsUpdateStatus_mut40 ==
    /\ running /\ hs.pc = "update_status"
    /\ \/ /\ UNCHANGED orders
          /\ IF hs.resp = "accepted"
             THEN hs' = [hs EXCEPT !.pc = "insert_trade"] /\ UNCHANGED log
             ELSE Return(hs, "err", next_uuid)
       \/ /\ orders' = update_order_status(orders, hs.order_id, status_after_post(hs.resp))
          /\ IF hs.resp = "accepted"
             THEN hs' = [hs EXCEPT !.pc = "insert_trade"] /\ UNCHANGED log
             ELSE Return(hs, "ok", next_uuid)
    /\ UNCHANGED <<peak_bankroll, trading_active, bankroll, call, positions, trades,
                   pnl_snapshots, posted, venue_open, next_uuid, ca, api, running>>
    /\ UNCHANGED <<kills, busVars>>

\* handle_signal, lines 122-124, 141-143, 148-150: update_order_status.
HsUpdateStatus ==
    /\ running /\ hs.pc = "update_status"
    /\ \/ Return(hs, "err", next_uuid) /\ UNCHANGED orders
       \/ /\ orders' = update_order_status(orders, hs.order_id, status_after_post(hs.resp))
          /\ IF hs.resp = "accepted"
             THEN hs' = [hs EXCEPT !.pc = "insert_trade"] /\ UNCHANGED log
             ELSE Return(hs, "ok", next_uuid)
    /\ UNCHANGED <<peak_bankroll, trading_active, bankroll, call, positions, trades,
                   pnl_snapshots, posted, venue_open, next_uuid, ca, api, running>>
    /\ UNCHANGED <<kills, busVars>>

\* Fault variant of HsInsertTrade: a failed insert_trade cancels the order at
\* the venue before the error is returned.
HsInsertTrade_mut14 ==
    /\ running /\ hs.pc = "insert_trade"
    /\ next_uuid' = next_uuid + 1
    /\ \/ /\ Return(hs, "err", next_uuid + 1)
          /\ venue_open' = venue_open \ {hs.order_id}
          /\ UNCHANGED trades
       \/ /\ trades' = insert_trade(trades,
                 new_trade(next_uuid, new_order(hs.order_id, hs.signal)))
          /\ Return(hs, "ok", next_uuid + 1)
          /\ UNCHANGED venue_open
    /\ UNCHANGED <<peak_bankroll, trading_active, bankroll, call, positions, orders,
                   pnl_snapshots, posted, ca, api, running>>
    /\ UNCHANGED <<kills, busVars>>

\* Fault variant of HsInsertTrade: the accepted order is added to the positions.
HsInsertTrade_mut34 ==
    /\ running /\ hs.pc = "insert_trade"
    /\ next_uuid' = next_uuid + 1
    /\ \/ Return(hs, "err", next_uuid + 1) /\ UNCHANGED <<trades, positions>>
       \/ /\ trades' = insert_trade(trades,
                 new_trade(next_uuid, new_order(hs.order_id, hs.signal)))
          /\ positions' = upsert_position(positions,
                 [market_id |-> hs.signal.market_id, token_id |-> hs.signal.market_id,
                  side |-> side_to_string(hs.signal.side), size |-> hs.signal.size,
                  avg_price |-> hs.signal.price, current_price |-> hs.signal.price,
                  pnl |-> 0])
          /\ Return(hs, "ok", next_uuid + 1)
    /\ UNCHANGED <<peak_bankroll, trading_active, bankroll, call, orders,
                   pnl_snapshots, posted, venue_open, ca, api, running>>
    /\ UNCHANGED <<kills, busVars>>

\* Fault variant of HsInsertTrade: the notional of the accepted order is
\* taken off the shared bankroll.
HsInsertTrade_mut37 ==
    /\ running /\ hs.pc = "insert_trade"
    /\ next_uuid' = next_uuid + 1
    /\ \/ Return(hs, "err", next_uuid + 1) /\ UNCHANGED <<trades, bankroll>>
       \/ /\ trades' = insert_trade(trades,
                 new_trade(next_uuid, new_order(hs.order_id, hs.signal)))
          /\ bankroll' = bankroll - (hs.signal.size * hs.signal.price) \div 100
          /\ Return(hs, "ok", next_uuid + 1)
    /\ UNCHANGED <<peak_bankroll, trading_active, call, positions, orders,
                   pnl_snapshots, posted, venue_open, ca, api, running>>
    /\ UNCHANGED <<kills, busVars>>

\* handle_signal, lines 127-137: the Trade is minted and inserted.
HsInsertTrade ==
    /\ running /\ hs.pc = "insert_trade"
    /\ next_uuid' = next_uuid + 1
    /\ \/ Return(hs, "err", next_uuid + 1) /\ UNCHANGED trades
       \/ /\ trades' = insert_trade(trades,
                 new_trade(next_uuid, new_order(hs.order_id, hs.signal)))
          /\ Return(hs, "ok", next_uuid + 1)
    /\ UNCHANGED <<peak_bankroll, trading_active, bankroll, call, positions, orders,
                   pnl_snapshots, posted, venue_open, ca, api, running>>
    /\ UNCHANGED <<kills, busVars>>

\* The frame of cancel_all when it is not running.  calls counts the calls
\* made, result is what the last one returned, before the orders that were
\* Pending or Open when it began, venue what the venue's cancel_all returned
\* to the call that is running.
CaIdle ==
    [pc |-> "idle", open_orders |-> {}, calls |-> 0, result |-> "none", before |-> {},
     venue |-> "none"]

\* cancel_all, line 160: the venue's cancel_all.  Err returns; Ok(true) (a 2xx
\* answer) has emptied the venue's book, Ok(false) (any other status) has not,
\* and both go on.
CaVenueCancelAll ==
    /\ running /\ ca.pc = "idle" /\ ca.calls < MaxCancels
    /\ LET frame == [ca EXCEPT !.calls = @ + 1, !.result = "none",
                               !.before = {id \in DOMAIN orders :
                                   status_from_row(orders[id].status) \in {"Pending", "Open"}}]
       IN  \/ /\ ca' = [frame EXCEPT !.result = "Err"]
              /\ UNCHANGED venue_open
           \/ /\ ca' = [frame EXCEPT !.pc = "get_open_orders", !.venue = "Ok(true)"]
              /\ venue_open' = {}
           \/ /\ ca' = [frame EXCEPT !.pc = "get_open_orders", !.venue = "Ok(false)"]
              /\ UNCHANGED venue_open
    /\ UNCHANGED <<peak_bankroll, trading_active, bankroll, call, positions, orders,
                   trades, pnl_snapshots, posted, next_uuid, hs, log, api, running>>
    /\ UNCHANGED <<kills, busVars>>

\* cancel_all, line 163: get_open_orders.
CaGetOpenOrders ==
    /\ running /\ ca.pc = "get_open_orders"
    /\ \/ ca' = [ca EXCEPT !.pc = "idle", !.result = "Err", !.venue = "none"]
       \/ ca' = [ca EXCEPT !.pc = "update", !.open_orders = get_open_orders(orders)]
    /\ UNCHANGED <<peak_bankroll, trading_active, bankroll, call, positions, orders,
                   trades, pnl_snapshots, posted, venue_open, next_uuid, hs, log, api,
                   running>>
    /\ UNCHANGED <<kills, busVars>>

\* cancel_all, lines 164-170: the loop over the orders read, in the order read,
\* and the return of Ok(()) after it.
CaUpdate ==
    /\ running /\ ca.pc = "update"
    /\ IF ca.open_orders = {}
       THEN /\ ca' = [ca EXCEPT !.pc = "idle", !.result = "Ok", !.venue = "none"]
            /\ UNCHANGED orders
       ELSE LET id == CHOOSE i \in ca.open_orders : \A j \in ca.open_orders : i <= j
            IN  \/ /\ ca' = [ca EXCEPT !.pc = "idle", !.open_orders = {},
                                        !.result = "Err", !.venue = "none"]
                   /\ UNCHANGED orders
                \/ /\ orders' = update_order_status(orders, id, "Cancelled")
                   /\ ca' = [ca EXCEPT !.open_orders = @ \ {id}]
    /\ UNCHANGED <<peak_bankroll, trading_active, bankroll, call, positions, trades,
                   pnl_snapshots, posted, venue_open, next_uuid, hs, log, api, running>>
    /\ UNCHANGED <<kills, busVars>>

(***************************************************************************)
(* The kill endpoint (src/api/mod.rs), the snapshot task and the shutdown  *)
(* (src/main.rs).                                                          *)
(***************************************************************************)
\* kill, line 104: state.risk.kill().
ApiKill ==
    /\ running /\ api = "idle"
    /\ kill
    /\ api' = "cancel_all"
    /\ UNCHANGED <<bankroll, call, positions, orders, trades, pnl_snapshots, posted,
                   venue_open, next_uuid, hs, log, ca, running>>
    /\ UNCHANGED <<kills, busVars>>

\* Fault variant of ApiCancelAll: after the venue's cancel_all the endpoint
\* marks every Pending or Open order Cancelled, as OrderManager::cancel_all does.
ApiCancelAll_mut38 ==
    /\ running /\ api = "cancel_all"
    /\ api' = "idle"
    /\ \E result \in {"Ok(true)", "Ok(false)", "Err"} :
         \/ result \in {"Ok(true)", "Err"} /\ venue_open' = {} /\ kills' = "cleared"
         \/ result \in {"Ok(false)", "Err"} /\ UNCHANGED <<venue_open, kills>>
    /\ orders' = [id \in DOMAIN orders |->
                     IF id \in get_open_orders(orders)
                     THEN [orders[id] EXCEPT !.status = "Cancelled"] ELSE orders[id]]
    /\ UNCHANGED <<peak_bankroll, trading_active, bankroll, call, positions,
                   trades, pnl_snapshots, posted, next_uuid, hs, log, ca, running>>
    /\ UNCHANGED busVars

\* kill, lines 105-106: the venue's cancel_all, its result dropped, and the
\* answer.  Ok(true) has emptied the venue's book and Ok(false) has not; a call
\* that failed may or may not have reached the venue.
ApiCancelAll ==
    /\ running /\ api = "cancel_all"
    /\ api' = "idle"
    /\ \E result \in {"Ok(true)", "Ok(false)", "Err"} :
         \/ result \in {"Ok(true)", "Err"} /\ venue_open' = {} /\ kills' = "cleared"
         \/ result \in {"Ok(false)", "Err"} /\ UNCHANGED <<venue_open, kills>>
    /\ UNCHANGED <<peak_bankroll, trading_active, bankroll, call, positions, orders,
                   trades, pnl_snapshots, posted, next_uuid, hs, log, ca, running>>
    /\ UNCHANGED busVars

\* main, lines 112-117: one tick of the PnL snapshot task.
SnapshotTick ==
    /\ running /\ Len(pnl_snapshots) < MaxTicks
    /\ update_bankroll(bankroll)
    /\ \/ pnl_snapshots' = record_pnl_snapshot(pnl_snapshots, bankroll, bankroll - 500)
       \/ UNCHANGED pnl_snapshots
    /\ UNCHANGED <<bankroll, call, positions, orders, trades, posted, venue_open,
                   next_uuid, hs, log, ca, api, running>>
    /\ UNCHANGED <<kills, busVars>>

\* main, lines 121-126: the server returns on ctrl-c and the tasks are dropped
\* wherever they are suspended.
Shutdown ==
    /\ running
    /\ running' = FALSE
    /\ UNCHANGED <<peak_bankroll, trading_active, bankroll, call, positions, orders,
                   trades, pnl_snapshots, posted, venue_open, next_uuid, hs, log, ca, api>>
    /\ UNCHANGED <<kills, busVars>>

(***************************************************************************)
(* The buses (tokio::sync::broadcast, created in src/main.rs).  A bus is   *)
(* kept as the runs of messages sent on it: a run [msg, n] is n copies of  *)
(* msg sent back to back.  tail counts the messages stored, next the       *)
(* messages the receiver has received or lost to lag; rx is FALSE once the *)
(* receiver is dropped, tx once every sender is.                           *)
(***************************************************************************)
\* main, lines 55-56: the capacities of the market bus and of the signal bus.
market_capacity == 1024
signal_capacity == 256

\* broadcast::channel: a bus with its one receiver, nothing sent.
channel == [runs |-> <<>>, tail |-> 0, next |-> 0, rx |-> TRUE, tx |-> TRUE]

\* Sender::send, n times back to back: with no receiver left the message is
\* handed back in Err and not stored; otherwise it is stored at the tail,
\* over the oldest message when the buffer is full.  send never waits.
send_returns(bus) == IF bus.rx THEN "Ok" ELSE "Err"

send(bus, msg, n) ==
    IF bus.rx
    THEN [bus EXCEPT !.runs = Append(@, [msg |-> msg, n |-> n]), !.tail = @ + n]
    ELSE bus

RECURSIVE message(_, _)
\* The i-th message stored on the bus, and its place in its run.
message(runs, i) ==
    IF i <= Head(runs).n
    THEN [msg |-> Head(runs).msg, k |-> i]
    ELSE message(Tail(runs), i - Head(runs).n)

\* Fault variant of recv: the newest message is handed out, not the oldest.
recv_mut18(bus, capacity) ==
    IF bus.tail - bus.next > capacity
    THEN [result |-> "Lagged", n |-> bus.tail - bus.next - capacity, index |-> 0,
          next |-> bus.tail - capacity]
    ELSE IF bus.next < bus.tail
    THEN [result |-> "Ok", n |-> 0, index |-> bus.tail, next |-> bus.next + 1]
    ELSE IF ~bus.tx
    THEN [result |-> "Closed", n |-> 0, index |-> 0, next |-> bus.next]
    ELSE [result |-> "Pending", n |-> 0, index |-> 0, next |-> bus.next]

\* Receiver::recv on a bus of the given capacity: the result, and the
\* receiver's position after it.  A receiver more than capacity behind gets
\* Lagged(n), n being the messages it lost, and stands at the oldest message
\* kept; otherwise it gets its next message; with nothing to receive it gets
\* Closed when every sender is gone and waits ("Pending") when not.
recv(bus, capacity) ==
    IF bus.tail - bus.next > capacity
    THEN [result |-> "Lagged", n |-> bus.tail - bus.next - capacity, index |-> 0,
          next |-> bus.tail - capacity]
    ELSE IF bus.next < bus.tail
    THEN [result |-> "Ok", n |-> 0, index |-> bus.next + 1, next |-> bus.next + 1]
    ELSE IF ~bus.tx
    THEN [result |-> "Closed", n |-> 0, index |-> 0, next |-> bus.next]
    ELSE [result |-> "Pending", n |-> 0, index |-> 0, next |-> bus.next]

\* The sizes of the runs a producer sends: one message, or as many as the
\* bus holds.
Bursts(capacity) == {1, capacity}

\* Every variable of the trading side, which the feed side leaves alone.
tradeVars == <<peak_bankroll, trading_active, bankroll, call, positions, orders, trades,
               pnl_snapshots, posted, venue_open, next_uuid, hs, log, ca, api, running,
               kills>>

(***************************************************************************)
(* The feed adapters (src/adapters/polymarket_ws.rs, binance.rs).  What a  *)
(* session brings is an input; seq numbers the events of one adapter in    *)
(* the order it sent them.  Timestamps are not modelled, an OrderBook is   *)
(* a number that names it.                                                 *)
(***************************************************************************)
NoEvent == [feed |-> "none", type |-> "none", key |-> "none", value |-> 0, seq |-> 0]

\* MarketData::PolymarketPrice and PolymarketOrderBook for the YES token of the
\* market main configures, as handle_message builds them.
PolymarketEvents ==
    {[type |-> "PolymarketPrice", key |-> "placeholder_yes_token", value |-> 40],
     [type |-> "PolymarketOrderBook", key |-> "placeholder_yes_token", value |-> 1]}

\* MarketData::BinanceTicker: a spot price 10% above the threshold, and one
\* 10% below it.
BinanceEvents ==
    {[type |-> "BinanceTicker", key |-> "BTCUSDT", value |-> 110000],
     [type |-> "BinanceTicker", key |-> "BTCUSDT", value |-> 90000]}

FeedInit ==
    [f \in {"polymarket", "binance"} |-> [calls |-> 0, sent |-> 0, dropped |-> 0]]

\* A well-formed message reaches handle_message, which builds the event and
\* calls self.tx.send, dropping what send returns (`let _ =`); the adapter
\* is then back in its read loop.  n such messages arrive back to back.
FeedSend(f, ev, n) ==
    /\ market_bus' = send(market_bus,
                          [feed |-> f, type |-> ev.type, key |-> ev.key,
                           value |-> ev.value, seq |-> feed[f].sent + 1], n)
    /\ feed' = [feed EXCEPT ![f] =
           [calls |-> @.calls + 1, sent |-> @.sent + n,
            dropped |-> @.dropped + (IF send_returns(market_bus) = "Err" THEN n ELSE 0)]]

\* Fault variant of BinanceFeedSend: the send waits for room in a full buffer
\* and for a receiver.
BinanceFeedSend_mut19 ==
    /\ market_bus.tx
    /\ market_bus.rx /\ market_bus.tail - market_bus.next < market_capacity
    /\ feed["polymarket"].calls + feed["binance"].calls < MaxEvents
    /\ \E ev \in BinanceEvents, n \in Bursts(market_capacity) :
         FeedSend("binance", ev, n)
    /\ UNCHANGED <<signal_bus, agg, run, adapter, strat>>
    /\ UNCHANGED tradeVars

\* polymarket_ws.rs, handle_message, lines 101-150.
PolymarketFeedSend ==
    /\ market_bus.tx
    /\ feed["polymarket"].calls + feed["binance"].calls < MaxEvents
    /\ \E ev \in PolymarketEvents, n \in Bursts(market_capacity) :
         FeedSend("polymarket", ev, n)
    /\ UNCHANGED <<signal_bus, agg, run, adapter, strat>>
    /\ UNCHANGED tradeVars

\* binance.rs, handle_message, lines 170-191.
BinanceFeedSend ==
    /\ market_bus.tx
    /\ feed["polymarket"].calls + feed["binance"].calls < MaxEvents
    /\ \E ev \in BinanceEvents, n \in Bursts(market_capacity) :
         FeedSend("binance", ev, n)
    /\ UNCHANGED <<signal_bus, agg, run, adapter, strat>>
    /\ UNCHANGED tradeVars

(***************************************************************************)
(* The run loops of the adapters (polymarket_ws.rs, lines 40-99;           *)
(* binance.rs, lines 41-150).  Of an adapter's frame, pc, backoff_ms,      *)
(* endpoint and failures are the program's; the rest records what          *)
(* happened: tried, the results of connect_async in this try; result,      *)
(* what the try returned to run; before, what the try before it returned;  *)
(* entered, backoff_ms when the last session began, and frame, the last    *)
(* frame read in it, both until the next connect_async;                    *)
(* delay, the argument of the last sleep; handled, the text frames of the  *)
(* session, each with whether it was well formed and the events sent for   *)
(* it.                                                                     *)
(***************************************************************************)
\* run, line 41 (42 in binance.rs), and lines 56 (61): the first delay and
\* the cap.
initial_backoff_ms == 1000
max_backoff_ms == 30000

\* rest_poll_loop, line 145: `failures > 30`.
max_rest_failures == 30

\* binance.rs, lines 26-34: the endpoints, .us before .com.
WS_ENDPOINTS == <<"stream.binance.us", "stream.binance.com">>
REST_ENDPOINTS == <<"api.binance.us", "api.binance.com">>

AdapterIdle ==
    [pc |-> "connect", backoff_ms |-> initial_backoff_ms, endpoint |-> 1,
     failures |-> 0, tried |-> <<>>, result |-> "none", before |-> "none",
     entered |-> 0, frame |-> "none", delay |-> 0, handled |-> <<>>]

AdapterInit == [f \in {"polymarket", "binance"} |-> AdapterIdle]

\* The frames a session brings beside text: Ping, any other frame, the
\* remote's Close, a read error, and the end of the stream.
Frames == {"Ping", "Other", "Close", "Error", "End"}

\* What is left alone when one adapter moves in its loop.
loopFrame == <<market_bus, signal_bus, feed, agg, run, strat>>

\* backoff_ms = (backoff_ms * 2).min(30_000).
next_backoff(backoff_ms) ==
    IF backoff_ms * 2 < max_backoff_ms THEN backoff_ms * 2 ELSE max_backoff_ms

\* Fault variant of Read: a read error is returned by run.
Read_mut26(f) ==
    /\ \E frame \in Frames :
         adapter' = [adapter EXCEPT ![f] =
             IF frame \in {"Ping", "Other"}
             THEN [@ EXCEPT !.frame = frame]
             ELSE IF frame = "Error"
             THEN [@ EXCEPT !.frame = frame, !.pc = "returned", !.result = "Err"]
             ELSE [@ EXCEPT !.frame = frame, !.pc = "sleep", !.result = "Ok",
                            !.backoff_ms = initial_backoff_ms]]
    /\ UNCHANGED loopFrame
    /\ UNCHANGED tradeVars

\* The while loop of connect_and_listen (lines 76-96) and of try_websocket
\* (lines 82-100) on a frame that is not text: Ping is answered with Pong and
\* the answer's result dropped, Close and a read error break, the end of the
\* stream ends the loop, and the function returns Ok(()), on which run resets
\* backoff_ms (line 47; 48 in binance.rs).
Read(f) ==
    /\ \E frame \in Frames :
         adapter' = [adapter EXCEPT ![f] =
             IF frame \in {"Ping", "Other"}
             THEN [@ EXCEPT !.frame = frame]
             ELSE [@ EXCEPT !.frame = frame, !.pc = "sleep", !.result = "Ok",
                            !.backoff_ms = initial_backoff_ms]]
    /\ UNCHANGED loopFrame
    /\ UNCHANGED tradeVars

\* Fault variant of Sleep: the delay is doubled before the sleep.
Sleep_mut22(f) ==
    /\ adapter' = [adapter EXCEPT ![f] =
           [@ EXCEPT !.pc = "connect", !.delay = next_backoff(adapter[f].backoff_ms),
                     !.backoff_ms = next_backoff(@), !.before = adapter[f].result,
                     !.result = "none", !.endpoint = 1, !.failures = 0,
                     !.tried = <<>>, !.handled = <<>>]]
    /\ UNCHANGED loopFrame
    /\ UNCHANGED tradeVars

\* run, lines 54-56 (59-61 in binance.rs): the sleep of backoff_ms, the
\* doubling after it, and the next turn of the loop.
Sleep(f) ==
    /\ adapter' = [adapter EXCEPT ![f] =
           [@ EXCEPT !.pc = "connect", !.delay = adapter[f].backoff_ms,
                     !.backoff_ms = next_backoff(@), !.before = adapter[f].result,
                     !.result = "none", !.endpoint = 1, !.failures = 0,
                     !.tried = <<>>, !.handled = <<>>]]
    /\ UNCHANGED loopFrame
    /\ UNCHANGED tradeVars

\* connect_and_listen, lines 61-74: connect_async, and no subscription to
\* send since main configures no market (main.rs, line 60).  A failure is
\* returned to run, which logs it (line 50).
PolymarketConnect ==
    /\ adapter["polymarket"].pc = "connect"
    /\ \E connected \in BOOLEAN :
         adapter' = [adapter EXCEPT !["polymarket"] =
             IF connected
             THEN [@ EXCEPT !.pc = "session", !.tried = Append(@, "Ok"),
                            !.entered = adapter["polymarket"].backoff_ms,
                            !.frame = "none"]
             ELSE [@ EXCEPT !.pc = "sleep", !.tried = Append(@, "Err"),
                            !.result = "Err", !.entered = 0, !.frame = "none"]]
    /\ UNCHANGED loopFrame
    /\ UNCHANGED tradeVars

PolymarketRead ==
    /\ adapter["polymarket"].pc = "session"
    /\ Read("polymarket")

PolymarketSleep ==
    /\ adapter["polymarket"].pc = "sleep"
    /\ Sleep("polymarket")

\* Fault variant of BinanceConnect: the first endpoint that fails sends the
\* adapter to REST polling.
BinanceConnect_mut23 ==
    /\ adapter["binance"].pc = "connect"
    /\ \E connected \in BOOLEAN :
         adapter' = [adapter EXCEPT !["binance"] =
             IF connected
             THEN [@ EXCEPT !.pc = "session", !.tried = Append(@, "Ok"),
                            !.entered = adapter["binance"].backoff_ms,
                            !.frame = "none"]
             ELSE [@ EXCEPT !.pc = "rest", !.tried = Append(@, "Err"),
                            !.entered = 0, !.frame = "none"]]
    /\ UNCHANGED loopFrame
    /\ UNCHANGED tradeVars

\* try_websocket, lines 73-110: connect_async on the endpoint whose turn it
\* is.  Connected, the adapter stays in that session; not connected, it goes
\* on to the next endpoint, and after the last one try_websocket returns Err
\* and run starts rest_poll_loop (lines 50-52).
BinanceConnect ==
    /\ adapter["binance"].pc = "connect"
    /\ \E connected \in BOOLEAN :
         adapter' = [adapter EXCEPT !["binance"] =
             IF connected
             THEN [@ EXCEPT !.pc = "session", !.tried = Append(@, "Ok"),
                            !.entered = adapter["binance"].backoff_ms,
                            !.frame = "none"]
             ELSE IF adapter["binance"].endpoint < Len(WS_ENDPOINTS)
             THEN [@ EXCEPT !.endpoint = @ + 1, !.tried = Append(@, "Err"),
                            !.entered = 0, !.frame = "none"]
             ELSE [@ EXCEPT !.pc = "rest", !.tried = Append(@, "Err"),
                            !.entered = 0, !.frame = "none"]]
    /\ UNCHANGED loopFrame
    /\ UNCHANGED tradeVars

BinanceRead ==
    /\ adapter["binance"].pc = "session"
    /\ Read("binance")

\* Fault variant of rest_counted: a tick that got a price leaves the count of
\* failures as it is, so that failures are counted in total.
rest_counted_mut39(frame, got_price) ==
    IF got_price THEN frame
    ELSE IF frame.failures + 1 > max_rest_failures
    THEN [frame EXCEPT !.failures = @ + 1, !.pc = "sleep", !.result = "Err"]
    ELSE [frame EXCEPT !.failures = @ + 1]

\* rest_poll_loop, lines 141-148, after a tick: the count of failures, and
\* the frame once the loop has gone on or has returned Err to run, which
\* logs it (line 54).
rest_counted(frame, got_price) ==
    IF got_price THEN [frame EXCEPT !.failures = 0]
    ELSE IF frame.failures + 1 > max_rest_failures
    THEN [frame EXCEPT !.failures = @ + 1, !.pc = "sleep", !.result = "Err"]
    ELSE [frame EXCEPT !.failures = @ + 1]

\* rest_poll_loop, lines 121-149: one tick.  No endpoint answers; or one
\* answers with a body that is no price ticker, for which handle_rest_price
\* (lines 152-168) sends nothing; or one answers with a price, which is sent.
BinanceRestTick ==
    /\ adapter["binance"].pc = "rest"
    /\ \/ /\ \E got_price \in BOOLEAN :
               adapter' = [adapter EXCEPT !["binance"] = rest_counted(@, got_price)]
          /\ UNCHANGED <<market_bus, feed>>
       \/ /\ market_bus.tx /\ feed["binance"].calls < MaxEvents
          /\ adapter' = [adapter EXCEPT !["binance"] = rest_counted(@, TRUE)]
          /\ FeedSend("binance", [type |-> "BinanceTicker", key |-> "BTCUSDT",
                                  value |-> 110000], 1)
    /\ UNCHANGED <<signal_bus, agg, run, strat>>
    /\ UNCHANGED tradeVars

BinanceSleep ==
    /\ adapter["binance"].pc = "sleep"
    /\ Sleep("binance")

(***************************************************************************)
(* The text frames (polymarket_ws.rs, handle_message, lines 101-150;       *)
(* binance.rs, handle_message, lines 170-191).  A text is kept as what the *)
(* deserializer makes of it: whether it is JSON of the expected shape, its *)
(* type, and the string in its price field.                                *)
(***************************************************************************)
\* f64::NAN as a price: no decimal string of the model parses to it.
NaN == -1

\* str::parse::<f64>: a decimal is read (prices in hundredths, spot prices
\* in dollars), "NaN" is read as f64::NAN, and letters are an error.
parse_f64(s) ==
    CASE s = "0.40" -> [ok |-> TRUE, value |-> 40]
      [] s = "110000.00" -> [ok |-> TRUE, value |-> 110000]
      [] s = "NaN" -> [ok |-> TRUE, value |-> NaN]
      [] OTHER -> [ok |-> FALSE, value |-> 0]

\* The texts a Polymarket session may bring: not JSON (or not of the shape of
\* WsMessage); a type the adapter does not know; a book; a price message
\* without price, or with a price that is letters, NaN, or a decimal.
PolymarketMessages ==
    {[json |-> FALSE, type |-> "none", price |-> "none"],
     [json |-> TRUE, type |-> "trade", price |-> "0.40"],
     [json |-> TRUE, type |-> "book", price |-> "none"]}
        \cup {[json |-> TRUE, type |-> "price", price |-> s] :
                 s \in {"none", "abc", "NaN", "0.40"}}

\* The texts a Binance session may bring: not JSON of either shape (which
\* includes a ticker without its price field), or a ticker, inside the
\* combined-stream wrapper or bare, whose price is letters, NaN or a decimal.
BinanceMessages ==
    {[json |-> FALSE, type |-> "none", price |-> "none"]}
        \cup {[json |-> TRUE, type |-> shape, price |-> s] :
                 shape \in {"combined", "ticker"}, s \in {"abc", "NaN", "110000.00"}}

\* PolymarketWsFeed::handle_message: the events sent for a text.
polymarket_handle_message(m) ==
    IF ~m.json THEN <<>>
    ELSE CASE m.type = "price" ->
                  IF m.price # "none" /\ parse_f64(m.price).ok
                  THEN <<[type |-> "PolymarketPrice", key |-> "placeholder_yes_token",
                          value |-> parse_f64(m.price).value]>>
                  ELSE <<>>
           [] m.type = "book" ->
                  <<[type |-> "PolymarketOrderBook", key |-> "placeholder_yes_token",
                     value |-> 1]>>
           [] OTHER -> <<>>

\* BinanceWsFeed::handle_message: the events sent for a text.
binance_handle_message(m) ==
    IF ~m.json THEN <<>>
    ELSE IF parse_f64(m.price).ok
    THEN <<[type |-> "BinanceTicker", key |-> "BTCUSDT",
            value |-> parse_f64(m.price).value]>>
    ELSE <<>>

\* A text frame in a session: handle_message is called, its events are sent,
\* its error, if any, is logged (polymarket_ws.rs, lines 78-82), and the
\* read loop goes on.
HandleMessage(f, wellformed, events) ==
    /\ adapter' = [adapter EXCEPT ![f] =
           [@ EXCEPT !.frame = "Text",
                     !.handled = Append(@, [wellformed |-> wellformed,
                                            sent |-> Len(events)])]]
    /\ IF events = <<>> THEN UNCHANGED <<market_bus, feed>>
       ELSE FeedSend(f, events[1], 1)
    /\ UNCHANGED <<signal_bus, agg, run, strat>>
    /\ UNCHANGED tradeVars

\* A text that is JSON of a known type whose price, where the type has one,
\* is a number.
wellformed(m) ==
    /\ m.json
    /\ m.type \in {"price", "book", "combined", "ticker"}
    /\ m.type # "book" => m.price \in {"0.40", "110000.00"}

PolymarketHandleMessage ==
    /\ adapter["polymarket"].pc = "session" /\ market_bus.tx
    /\ Len(adapter["polymarket"].handled) < MaxEvents
    /\ \E m \in PolymarketMessages :
         HandleMessage("polymarket", wellformed(m), polymarket_handle_message(m))

BinanceHandleMessage ==
    /\ adapter["binance"].pc = "session" /\ market_bus.tx
    /\ Len(adapter["binance"].handled) < MaxEvents
    /\ \E m \in BinanceMessages :
         HandleMessage("binance", wellformed(m), binance_handle_message(m))

(***************************************************************************)
(* The strategies main configures (src/strategy/latency_arb.rs,            *)
(* intra_arb.rs).  A confidence is a percentage, a spot price is in whole  *)
(* dollars.                                                                *)
(***************************************************************************)
\* main, line 70, and LatencyArbStrategy::new, lines 39-40.
threshold_price == 100000
min_edge_pct == 2
strategy_max_position_pct == 5

\* No call made on a strategy yet.
NoStrat == [op |-> "none", args |-> <<>>, returned |-> <<>>]

\* An f64 that is a fraction of integers n/d with d > 0: the arithmetic of
\* the sizes is done on fractions, without rounding.
ratio(n, d) == [n |-> n, d |-> d]

f64_lt(x, y) == x.n * y.d < y.n * x.d
f64_min(x, y) == IF f64_lt(y, x) THEN y ELSE x
\* The whole dollars of a size, as the signals of the model carry it.
floor(x) == x.n \div x.d

\* Fault variant of kelly_size: the size is not clamped at 0.
kelly_size_mut28(confidence, price, current_bankroll) ==
    IF price <= 0 \/ price >= 100 \/ confidence <= 0 THEN ratio(0, 1)
    ELSE LET b_n == 100 - price
             kelly_n == b_n * confidence - (100 - confidence) * price
             kelly == IF kelly_n > 0 THEN kelly_n ELSE 0
             half_kelly_d == 200 * b_n
             max_size == current_bankroll * strategy_max_position_pct
             size == IF kelly * current_bankroll * 100 < max_size * half_kelly_d
                     THEN ratio(kelly * current_bankroll, half_kelly_d)
                     ELSE ratio(max_size, 100)
         IN  size

\* Fault variant of kelly_size: full Kelly instead of half.
kelly_size_mut29(confidence, price, current_bankroll) ==
    IF price <= 0 \/ price >= 100 \/ confidence <= 0 THEN ratio(0, 1)
    ELSE LET b_n == 100 - price
             kelly_n == b_n * confidence - (100 - confidence) * price
             kelly == IF kelly_n > 0 THEN kelly_n ELSE 0
             half_kelly_d == 100 * b_n
             max_size == current_bankroll * strategy_max_position_pct
             size == IF kelly * current_bankroll * 100 < max_size * half_kelly_d
                     THEN ratio(kelly * current_bankroll, half_kelly_d)
                     ELSE ratio(max_size, 100)
         IN  IF size.n < 0 THEN ratio(0, 1) ELSE size

\* kelly_size, lines 46-60, step by step; confidence is a percentage and
\* price is in hundredths.  b = 1/price - 1 is b_n / price, b * p - q is
\* kelly_n / (100 * price) and its quotient by b is kelly_n / (100 * b_n);
\* kelly, after max(0.0), is a number of (100 * b_n)-ths, half_kelly the same
\* number of half_kelly_d-ths, and max_size is in hundredths.
kelly_size(confidence, price, current_bankroll) ==
    IF price <= 0 \/ price >= 100 \/ confidence <= 0 THEN ratio(0, 1)
    ELSE LET b_n == 100 - price
             kelly_n == b_n * confidence - (100 - confidence) * price
             kelly == IF kelly_n > 0 THEN kelly_n ELSE 0
             half_kelly_d == 200 * b_n
             max_size == current_bankroll * strategy_max_position_pct
             size == IF kelly * current_bankroll * 100 < max_size * half_kelly_d
                     THEN ratio(kelly * current_bankroll, half_kelly_d)
                     ELSE ratio(max_size, 100)
         IN  IF size.n < 0 THEN ratio(0, 1) ELSE size

\* evaluate, lines 105 and 120: (0.5 + edge * 5.0).min(0.95), edge being
\* edge_num / threshold_price.
confidence_of(edge_num) ==
    LET c == 50 + (500 * edge_num) \div threshold_price
    IN  IF c < 95 THEN c ELSE 95

\* Fault variant of latency_arb_evaluate: a YES price of 0.90 is still bought.
latency_arb_evaluate_mut32(ctx) ==
    IF "BTCUSDT" \notin DOMAIN ctx.binance_prices THEN <<>>
    ELSE IF "placeholder_yes_token" \notin DOMAIN ctx.prices THEN <<>>
    ELSE IF \E i \in 1..Len(ctx.positions) :
                ctx.positions[i].market_id = "placeholder_market"
                    /\ ctx.positions[i].size > 0
    THEN <<>>
    ELSE IF ctx.binance_prices["BTCUSDT"] = NaN
                \/ ctx.prices["placeholder_yes_token"] = NaN
    \* no comparison with a NaN is true: neither branch is taken
    THEN <<>>
    ELSE LET spot_price == ctx.binance_prices["BTCUSDT"]
             poly_yes_price == ctx.prices["placeholder_yes_token"]
             edge_above == spot_price - threshold_price
             edge_below == threshold_price - spot_price
             signal(side, confidence, size) ==
                 IF f64_lt(ratio(1, 1), size)
                 THEN <<[strategy |-> "latency_arb", market_id |-> "placeholder_market",
                         side |-> side, confidence |-> confidence,
                         price |-> poly_yes_price, size |-> floor(size)]>>
                 ELSE <<>>
         IN  IF edge_above * 100 > min_edge_pct * threshold_price /\ poly_yes_price <= 90
             THEN signal("Buy", confidence_of(edge_above),
                         kelly_size(confidence_of(edge_above), poly_yes_price,
                                    ctx.bankroll))
             ELSE IF edge_below * 100 > min_edge_pct * threshold_price
                         /\ poly_yes_price > 10
             THEN signal("Sell", confidence_of(edge_below),
                         kelly_size(confidence_of(edge_below), 100 - poly_yes_price,
                                    ctx.bankroll))
             ELSE <<>>

\* LatencyArbStrategy::evaluate, lines 73-135.
latency_arb_evaluate(ctx) ==
    IF "BTCUSDT" \notin DOMAIN ctx.binance_prices THEN <<>>
    ELSE IF "placeholder_yes_token" \notin DOMAIN ctx.prices THEN <<>>
    ELSE IF \E i \in 1..Len(ctx.positions) :
                ctx.positions[i].market_id = "placeholder_market"
                    /\ ctx.positions[i].size > 0
    THEN <<>>
    ELSE IF ctx.binance_prices["BTCUSDT"] = NaN
                \/ ctx.prices["placeholder_yes_token"] = NaN
    \* no comparison with a NaN is true: neither branch is taken
    THEN <<>>
    ELSE LET spot_price == ctx.binance_prices["BTCUSDT"]
             poly_yes_price == ctx.prices["placeholder_yes_token"]
             edge_above == spot_price - threshold_price
             edge_below == threshold_price - spot_price
             signal(side, confidence, size) ==
                 IF f64_lt(ratio(1, 1), size)
                 THEN <<[strategy |-> "latency_arb", market_id |-> "placeholder_market",
                         side |-> side, confidence |-> confidence,
                         price |-> poly_yes_price, size |-> floor(size)]>>
                 ELSE <<>>
         IN  IF edge_above * 100 > min_edge_pct * threshold_price /\ poly_yes_price < 90
             THEN signal("Buy", confidence_of(edge_above),
                         kelly_size(confidence_of(edge_above), poly_yes_price,
                                    ctx.bankroll))
             ELSE IF edge_below * 100 > min_edge_pct * threshold_price
                         /\ poly_yes_price > 10
             THEN signal("Sell", confidence_of(edge_below),
                         kelly_size(confidence_of(edge_below), 100 - poly_yes_price,
                                    ctx.bankroll))
             ELSE <<>>

\* The arguments kelly_size is called with: every confidence from below 0 to
\* above 1 and every price from below 0 to above 1, by hundredths, and a
\* negative, a zero, a small and the usual bankrolls.
KellyConfidences == -2..102
KellyPrices == -2..102
KellyBankrolls == {-500, 0, 1, 37, 500, 1000}

\* One call of kelly_size.
KellySize ==
    /\ strat = NoStrat
    /\ \E confidence \in KellyConfidences, price \in KellyPrices,
          current_bankroll \in KellyBankrolls :
         strat' = [op |-> "kelly_size",
                   args |-> <<confidence, price, current_bankroll>>,
                   returned |-> kelly_size(confidence, price, current_bankroll)]
    /\ UNCHANGED <<market_bus, signal_bus, feed, agg, run, adapter>>
    /\ UNCHANGED tradeVars

\* The contexts evaluate is called with: the spot price unknown, NaN, below,
\* around and above the threshold; the YES price unknown (no price, or the
\* price of another token only), NaN, and from 0.01 to 0.99; the positions
\* are the empty list run_strategies passes (feeds.rs, line 75).
LatencyContexts ==
    [bankroll : {0, 20, 500},
     positions : {<<>>},
     prices : {<<>>, [k \in {"placeholder_no_token"} |-> 60]}
                  \cup {[k \in {"placeholder_yes_token"} |-> y] :
                            y \in {NaN, 1, 5, 10, 11, 40, 50, 89, 90, 95, 99}},
     orderbooks : {<<>>},
     binance_prices : {<<>>}
                  \cup {[k \in {"BTCUSDT"} |-> s] :
                            s \in {NaN, 90000, 97000, 98000, 99000, 100000, 101000,
                                    102000, 103000, 110000, 120000}},
     latest_event : {NoEvent}]

\* One call of evaluate on the LatencyArbStrategy main builds.
LatencyEvaluate ==
    /\ strat = NoStrat
    /\ \E ctx \in LatencyContexts :
         strat' = [op |-> "latency_arb_evaluate", args |-> <<ctx>>,
                   returned |-> latency_arb_evaluate(ctx)]
    /\ UNCHANGED <<market_bus, signal_bus, feed, agg, run, adapter>>
    /\ UNCHANGED tradeVars

\* IntraArbStrategy::new, lines 20-21.
min_margin == 2
intra_max_position_pct == 5

RECURSIVE filter_map(_, _)
\* evaluate, lines 41-46: the outcome tokens that have a price, with it.
filter_map(token_ids, prices) ==
    IF token_ids = <<>> THEN <<>>
    ELSE (IF Head(token_ids) \in DOMAIN prices
          THEN <<[token_id |-> Head(token_ids), price |-> prices[Head(token_ids)]]>>
          ELSE <<>>) \o filter_map(Tail(token_ids), prices)

RECURSIVE sum(_)
\* evaluate, line 53: the sum of the prices, NaN as soon as one of them is.
sum(prices) ==
    IF prices = <<>> THEN 0
    ELSE IF Head(prices).price = NaN \/ sum(Tail(prices)) = NaN THEN NaN
    ELSE Head(prices).price + sum(Tail(prices))

\* Fault variant of intra_market: a market with a missing price is not skipped.
intra_market_mut30(market, ctx) ==
    LET market_id == market[1]
        token_ids == market[2]
        prices == filter_map(token_ids, ctx.prices)
        total == sum(prices)
        max_size == ratio(ctx.bankroll * intra_max_position_pct, 100)
        size == f64_min(max_size, ratio(ctx.bankroll * 10, 100))
        profit_per_dollar == 100 - total
    IN  IF total # NaN /\ total < 100 - min_margin
        THEN [i \in 1..Len(prices) |->
                 [strategy |-> "intra_arb", market_id |-> market_id, side |-> "Buy",
                  confidence |-> IF profit_per_dollar < 100 THEN profit_per_dollar ELSE 100,
                  price |-> prices[i].price,
                  size |-> floor(ratio(size.n * prices[i].price, size.d * 100))]]
        ELSE <<>>

\* evaluate, lines 40-79: the body of the loop, for one configured market.
intra_market(market, ctx) ==
    LET market_id == market[1]
        token_ids == market[2]
        prices == filter_map(token_ids, ctx.prices)
        total == sum(prices)
        max_size == ratio(ctx.bankroll * intra_max_position_pct, 100)
        size == f64_min(max_size, ratio(ctx.bankroll * 10, 100))
        profit_per_dollar == 100 - total
    IN  IF Len(prices) # Len(token_ids) THEN <<>>
        ELSE IF total # NaN /\ total < 100 - min_margin
        THEN [i \in 1..Len(prices) |->
                 [strategy |-> "intra_arb", market_id |-> market_id, side |-> "Buy",
                  confidence |-> IF profit_per_dollar < 100 THEN profit_per_dollar ELSE 100,
                  price |-> prices[i].price,
                  size |-> floor(ratio(size.n * prices[i].price, size.d * 100))]]
        ELSE <<>>

RECURSIVE intra_evaluate(_, _)
\* IntraArbStrategy::evaluate, lines 36-83, of a strategy built on markets.
intra_evaluate(markets, ctx) ==
    IF markets = <<>> THEN <<>>
    ELSE intra_market(Head(markets), ctx) \o intra_evaluate(Tail(markets), ctx)

\* The strategy main builds (line 72) has no market.
intra_arb_evaluate(ctx) == intra_evaluate(<<>>, ctx)

\* The markets an IntraArbStrategy is built on: none, one of two outcomes, two
\* markets, one of three outcomes, one without outcome.
IntraMarkets ==
    {<<>>,
     << <<"m1", <<"tok_A", "tok_B">>>> >>,
     << <<"m1", <<"tok_A", "tok_B">>>>, <<"m2", <<"tok_C">>>> >>,
     << <<"m3", <<"tok_A", "tok_B", "tok_C">>>> >>,
     << <<"m4", <<>>>> >>}
\* The prices the aggregator may hold: of any of the tokens, in hundredths.
IntraPrices ==
    UNION {[S -> {NaN, 1, 30, 48, 49, 50, 97, 98}] :
               S \in SUBSET {"tok_A", "tok_B", "tok_C"}}

\* One call of evaluate on an IntraArbStrategy.
IntraEvaluate ==
    /\ strat = NoStrat
    /\ \E markets \in IntraMarkets, prices \in IntraPrices, current_bankroll \in {500, 1000} :
         strat' = [op |-> "intra_arb_evaluate",
                   args |-> <<markets, prices, current_bankroll>>,
                   returned |-> intra_evaluate(markets,
                       [bankroll |-> current_bankroll, positions |-> <<>>,
                        prices |-> prices, orderbooks |-> <<>>,
                        binance_prices |-> <<>>, latest_event |-> NoEvent])]
    /\ UNCHANGED <<market_bus, signal_bus, feed, agg, run, adapter>>
    /\ UNCHANGED tradeVars

(***************************************************************************)
(* The FeedAggregator (src/feeds.rs).  trace, contexts and emitted record  *)
(* what run received, the StrategyContext built for each event and the     *)
(* signals sent for it; alive is FALSE once the task is dropped.           *)
(***************************************************************************)
\* FeedAggregator::new, lines 21-36.
AggInit ==
    [pc |-> "recv", alive |-> TRUE, event |-> NoEvent, prices |-> <<>>, orderbooks |-> <<>>,
     binance_prices |-> <<>>, trace |-> <<>>, contexts |-> <<>>, emitted |-> <<>>]

\* HashMap::insert.
insert(map, key, value) == (key :> value) @@ map

\* update_state, lines 58-70, on the three maps.
update_state(maps, event) ==
    CASE event.type = "PolymarketPrice" ->
             [maps EXCEPT !.prices = insert(@, event.key, event.value)]
      [] event.type = "PolymarketOrderBook" ->
             [maps EXCEPT !.orderbooks = insert(@, event.key, event.value)]
      [] event.type = "BinanceTicker" ->
             [maps EXCEPT !.binance_prices = insert(@, event.key, event.value)]

\* run_strategies, lines 73-80: the StrategyContext.
context(current_bankroll, maps, event) ==
    [bankroll |-> current_bankroll, positions |-> <<>>, prices |-> maps.prices,
     orderbooks |-> maps.orderbooks, binance_prices |-> maps.binance_prices,
     latest_event |-> event]

\* run_strategies, lines 82-96: the signals of the enabled strategies, in the
\* order of the list main builds.
evaluate(ctx) == latency_arb_evaluate(ctx) \o intra_arb_evaluate(ctx)

RECURSIVE send_all(_, _)
\* run_strategies, lines 88-95: the signals are sent one by one.
send_all(bus, signals) ==
    IF signals = <<>> THEN bus
    ELSE send_all(send(bus, Head(signals), 1), Tail(signals))

\* The events the aggregator has received.
Delivered == SelectSeq(agg.trace, LAMBDA e : e.result = "Ok")

\* What recv returned, as the traces keep it; msg is the message received,
\* none when recv returned no message.
Received(bus, r, msg) ==
    [result |-> r.result, n |-> r.n, index |-> r.index, tail |-> bus.tail, msg |-> msg]

\* The event stored at an index of the market bus: the k-th message of a run
\* is the k-th of the events the adapter sent back to back.
event_at(bus, index) ==
    LET m == message(bus.runs, index)
    IN  [m.msg EXCEPT !.seq = @ + m.k - 1]

\* Fault variant of AggRecv: Lagged ends the task as Closed does.
AggRecv_mut20 ==
    /\ agg.alive /\ agg.pc = "recv"
    /\ LET r == recv(market_bus, market_capacity)
       IN  /\ r.result # "Pending"
           /\ r.result = "Ok" => Len(Delivered) < MaxDelivered
           /\ market_bus' = [market_bus EXCEPT !.next = r.next,
                                               !.rx = (r.result # "Closed")]
           /\ signal_bus' = [signal_bus EXCEPT !.tx = @ /\ r.result # "Closed"]
           /\ agg' = CASE r.result = "Ok" ->
                              [agg EXCEPT !.pc = "update_state",
                                          !.event = event_at(market_bus, r.index),
                                          !.trace = Append(@, Received(market_bus, r,
                                                      event_at(market_bus, r.index)))]
                       [] r.result = "Lagged" ->
                              [agg EXCEPT !.pc = "ended", !.trace = Append(@, Received(market_bus, r,
                                                                       NoEvent))]
                       [] r.result = "Closed" ->
                              [agg EXCEPT !.pc = "ended",
                                          !.trace = Append(@, Received(market_bus, r,
                                                                       NoEvent))]
    /\ UNCHANGED <<feed, run, adapter, strat>>
    /\ UNCHANGED tradeVars

\* Fault variant of AggRecv: the newest event of the bus is taken, not the
\* next one.
AggRecv_mut18 ==
    /\ agg.alive /\ agg.pc = "recv"
    /\ LET r == recv_mut18(market_bus, market_capacity)
       IN  /\ r.result # "Pending"
           /\ r.result = "Ok" => Len(Delivered) < MaxDelivered
           /\ market_bus' = [market_bus EXCEPT !.next = r.next,
                                               !.rx = (r.result # "Closed")]
           /\ signal_bus' = [signal_bus EXCEPT !.tx = @ /\ r.result # "Closed"]
           /\ agg' = CASE r.result = "Ok" ->
                              [agg EXCEPT !.pc = "update_state",
                                          !.event = event_at(market_bus, r.index),
                                          !.trace = Append(@, Received(market_bus, r,
                                                      event_at(market_bus, r.index)))]
                       [] r.result = "Lagged" ->
                              [agg EXCEPT !.trace = Append(@, Received(market_bus, r,
                                                                       NoEvent))]
                       [] r.result = "Closed" ->
                              [agg EXCEPT !.pc = "ended",
                                          !.trace = Append(@, Received(market_bus, r,
                                                                       NoEvent))]
    /\ UNCHANGED <<feed, run, adapter, strat>>
    /\ UNCHANGED tradeVars

\* run, lines 41-55: one recv on the market bus and its match arm.  Lagged is
\* logged (line 48) and Closed ends the task (line 52), whose receiver and
\* sender are dropped with it; Closed means main has returned, so that no
\* sender of the signal bus is left.
AggRecv ==
    /\ agg.alive /\ agg.pc = "recv"
    /\ LET r == recv(market_bus, market_capacity)
       IN  /\ r.result # "Pending"
           /\ r.result = "Ok" => Len(Delivered) < MaxDelivered
           /\ market_bus' = [market_bus EXCEPT !.next = r.next,
                                               !.rx = (r.result # "Closed")]
           /\ signal_bus' = [signal_bus EXCEPT !.tx = @ /\ r.result # "Closed"]
           /\ agg' = CASE r.result = "Ok" ->
                              [agg EXCEPT !.pc = "update_state",
                                          !.event = event_at(market_bus, r.index),
                                          !.trace = Append(@, Received(market_bus, r,
                                                      event_at(market_bus, r.index)))]
                       [] r.result = "Lagged" ->
                              [agg EXCEPT !.trace = Append(@, Received(market_bus, r,
                                                                       NoEvent))]
                       [] r.result = "Closed" ->
                              [agg EXCEPT !.pc = "ended",
                                          !.trace = Append(@, Received(market_bus, r,
                                                                       NoEvent))]
    /\ UNCHANGED <<feed, run, adapter, strat>>
    /\ UNCHANGED tradeVars

\* Fault variant of AggUpdateState: the event is not applied to the maps.
AggUpdateState_mut17 ==
    /\ agg.alive /\ agg.pc = "update_state"
    /\ agg' = [agg EXCEPT !.pc = "run_strategies"]
    /\ UNCHANGED <<market_bus, signal_bus, feed, run, adapter, strat>>
    /\ UNCHANGED tradeVars

\* run, line 43, and update_state, lines 58-70.
AggUpdateState ==
    /\ agg.alive /\ agg.pc = "update_state"
    /\ LET maps == update_state([prices |-> agg.prices, orderbooks |-> agg.orderbooks,
                                 binance_prices |-> agg.binance_prices], agg.event)
       IN  agg' = [agg EXCEPT !.pc = "run_strategies", !.prices = maps.prices,
                              !.orderbooks = maps.orderbooks,
                              !.binance_prices = maps.binance_prices]
    /\ UNCHANGED <<market_bus, signal_bus, feed, run, adapter, strat>>
    /\ UNCHANGED tradeVars

\* run, line 44, and run_strategies, lines 72-97: the context is built from
\* the shared bankroll and clones of the maps, and every signal is sent,
\* whatever send returns (`let _ =`, line 94).
AggRunStrategies ==
    /\ agg.alive /\ agg.pc = "run_strategies"
    /\ LET ctx == context(bankroll,
                          [prices |-> agg.prices, orderbooks |-> agg.orderbooks,
                           binance_prices |-> agg.binance_prices], agg.event)
       IN  \E signals \in {evaluate(ctx)} :
               /\ signal_bus' = send_all(signal_bus, signals)
               /\ agg' = [agg EXCEPT !.pc = "recv", !.event = NoEvent,
                                     !.contexts = Append(@, ctx),
                                     !.emitted = Append(@,
                                         [signals |-> signals,
                                          returned |-> send_returns(signal_bus),
                                          tail |-> signal_bus.tail])]
    /\ UNCHANGED <<market_bus, feed, run, adapter, strat>>
    /\ UNCHANGED tradeVars

(***************************************************************************)
(* The end of main (src/main.rs, lines 121-126): once main returns its     *)
(* senders are dropped and the runtime drops the tasks, one by one.        *)
(***************************************************************************)
\* Both adapters are dropped, and with them the last senders of the market
\* bus.
DropFeeds ==
    /\ market_bus.tx
    /\ market_bus' = [market_bus EXCEPT !.tx = FALSE]
    /\ UNCHANGED <<signal_bus, feed, agg, run, adapter, strat>>
    /\ UNCHANGED tradeVars

\* The aggregator is dropped at one of its awaits (feeds.rs: recv, the locks,
\* evaluate): the market bus loses its receiver, the signal bus its last
\* sender.
DropAggregator ==
    /\ agg.alive /\ agg.pc # "ended"
    /\ agg' = [agg EXCEPT !.alive = FALSE]
    /\ market_bus' = [market_bus EXCEPT !.rx = FALSE]
    /\ signal_bus' = [signal_bus EXCEPT !.tx = FALSE]
    /\ UNCHANGED <<feed, run, adapter, strat>>
    /\ UNCHANGED tradeVars

\* The order manager is dropped: the signal bus loses its receiver.
DropOrderManager ==
    /\ run.pc = "loop"
    /\ run' = [run EXCEPT !.pc = "dropped"]
    /\ signal_bus' = [signal_bus EXCEPT !.rx = FALSE]
    /\ UNCHANGED <<market_bus, feed, agg, adapter, strat>>
    /\ UNCHANGED tradeVars

(***************************************************************************)
(* OrderManager::run (src/engine/order_manager.rs, lines 38-59) on the     *)
(* signal bus.  trace records what recv returned.                          *)
(***************************************************************************)
RunInit == [pc |-> "loop", trace |-> <<>>]

\* The signals sent: one the risk check approves, and one it rejects.
SentSignals == {Sig("Buy", 50, 50), Sig("Buy", 50, 60)}

\* feeds.rs, lines 88-95, seen from the signal bus: the aggregator sends a
\* signal a strategy returned, or n of them back to back.
SendSignal ==
    /\ signal_bus.tx /\ agg.alive
    /\ Len(signal_bus.runs) < MaxSends
    /\ \E s \in SentSignals, n \in Bursts(signal_capacity) :
         signal_bus' = send(signal_bus, s, n)
    /\ UNCHANGED <<market_bus, feed, agg, run, adapter, strat>>
    /\ UNCHANGED tradeVars

\* Fault variant of RunRecv: Lagged ends the loop as Closed does.
RunRecv_mut15 ==
    /\ run.pc = "loop" /\ hs.pc = "recv"
    /\ LET r == recv(signal_bus, signal_capacity)
           signal == IF r.result = "Ok" THEN message(signal_bus.runs, r.index).msg
                     ELSE NoSignal
       IN  /\ r.result # "Pending"
           /\ r.result = "Ok" => Len(log) < MaxSignals
           /\ signal_bus' = [signal_bus EXCEPT !.next = r.next,
                                               !.rx = (r.result = "Ok")]
           /\ run' = [pc |-> IF r.result = "Ok" THEN "loop" ELSE "ended",
                      trace |-> Append(run.trace, Received(signal_bus, r, signal))]
           /\ hs' = IF r.result = "Ok"
                    THEN [HsIdle EXCEPT !.pc = "get_positions", !.signal = signal,
                                        !.current_bankroll = bankroll,
                                        !.uuid_from = next_uuid]
                    ELSE hs
    /\ UNCHANGED <<peak_bankroll, trading_active, bankroll, call, positions, orders,
                   trades, pnl_snapshots, posted, venue_open, next_uuid, log, ca, api,
                   running, kills>>
    /\ UNCHANGED <<market_bus, feed, agg, adapter, strat>>

\* run, lines 41-56: one recv on the signal bus and its match arm.  Ok hands
\* the signal to handle_signal (whose Err is logged, line 45), Lagged is
\* logged (line 49), Closed breaks out of the loop (line 53) and run returns,
\* dropping the receiver.
RunRecv ==
    /\ run.pc = "loop" /\ hs.pc = "recv"
    /\ LET r == recv(signal_bus, signal_capacity)
           signal == IF r.result = "Ok" THEN message(signal_bus.runs, r.index).msg
                     ELSE NoSignal
       IN  /\ r.result # "Pending"
           /\ r.result = "Ok" => Len(log) < MaxSignals
           /\ signal_bus' = [signal_bus EXCEPT !.next = r.next,
                                               !.rx = (r.result # "Closed")]
           /\ run' = [pc |-> IF r.result = "Closed" THEN "ended" ELSE "loop",
                      trace |-> Append(run.trace, Received(signal_bus, r, signal))]
           /\ hs' = IF r.result = "Ok"
                    THEN [HsIdle EXCEPT !.pc = "get_positions", !.signal = signal,
                                        !.current_bankroll = bankroll,
                                        !.uuid_from = next_uuid]
                    ELSE hs
    /\ UNCHANGED <<peak_bankroll, trading_active, bankroll, call, positions, orders,
                   trades, pnl_snapshots, posted, venue_open, next_uuid, log, ca, api,
                   running, kills>>
    /\ UNCHANGED <<market_bus, feed, agg, adapter, strat>>

(***************************************************************************)
(* The RiskManager driven through its public methods with any arguments.   *)
(***************************************************************************)
pipelineVars == <<bankroll, positions, orders, trades, pnl_snapshots, posted,
                  venue_open, next_uuid, hs, log, ca, api, running, kills, busVars>>

RiskUpdateBankroll ==
    \E b \in Bankrolls :
        /\ update_bankroll(b)
        /\ call' = [NoCall EXCEPT !.op = "update_bankroll", !.b = b,
                                  !.ret = update_bankroll_returns(peak_bankroll', b)]
        /\ UNCHANGED pipelineVars

RiskCheckSignal ==
    \E s \in Signals, b \in Bankrolls, e \in Exposures :
        /\ call' = [NoCall EXCEPT !.op = "check_signal", !.b = b, !.signal = s,
                                  !.exposure = e,
                                  !.ret = check_signal(trading_active, s, b, e),
                                  !.since_resume = call.since_resume]
        /\ UNCHANGED riskVars
        /\ UNCHANGED pipelineVars

RiskKill ==
    /\ kill
    /\ call' = [NoCall EXCEPT !.op = "kill"]
    /\ UNCHANGED pipelineVars

RiskResume ==
    /\ resume
    /\ call' = [NoCall EXCEPT !.op = "resume", !.since_resume = TRUE]
    /\ UNCHANGED pipelineVars

\* is_active, lines 98-100.
RiskIsActive ==
    /\ call' = [NoCall EXCEPT !.op = "is_active", !.ret = trading_active,
                              !.since_resume = call.since_resume]
    /\ UNCHANGED riskVars
    /\ UNCHANGED pipelineVars

(***************************************************************************)
(* Specifications.                                                         *)
(***************************************************************************)
\* main, lines 39-56, RiskManager::new and OrderManager::new.
Init ==
    /\ bankroll \in StartingBankrolls
    /\ peak_bankroll = bankroll
    /\ trading_active = TRUE
    /\ call = NoCall
    /\ positions \in PositionTables
    /\ orders = <<>>
    /\ trades = <<>>
    /\ pnl_snapshots = <<>>
    /\ posted = <<>>
    /\ venue_open = {}
    /\ next_uuid = 1
    /\ hs = HsIdle
    /\ log = <<>>
    /\ ca = CaIdle
    /\ api = "idle"
    /\ running = TRUE
    /\ kills = "none"
    /\ market_bus = channel
    /\ signal_bus = channel
    /\ feed = FeedInit
    /\ agg = AggInit
    /\ run = RunInit
    /\ adapter = AdapterInit
    /\ strat = NoStrat

\* The program as main wires it: run owns the OrderManager, so nothing calls
\* cancel_all, and nothing calls resume.
Next ==
    \/ RecvSignal
    \/ HsGetPositions
    \/ HsCheckSignal
    \/ HsInsertOrder
    \/ HsPostOrder
    \/ HsUpdateStatus
    \/ HsInsertTrade
    \/ ApiKill
    \/ ApiCancelAll
    \/ SnapshotTick
    \/ Shutdown

Spec == Init /\ [][Next]_vars

\* An OrderManager whose handle_signal and cancel_all (both take &self) run
\* beside each other.
NextCancel ==
    \/ RecvSignal
    \/ HsGetPositions
    \/ HsCheckSignal
    \/ HsInsertOrder
    \/ HsPostOrder
    \/ HsUpdateStatus
    \/ HsInsertTrade
    \/ CaVenueCancelAll
    \/ CaGetOpenOrders
    \/ CaUpdate

SpecCancel == Init /\ [][NextCancel]_vars

\* An owner of the OrderManager that calls handle_signal and cancel_all one
\* after the other: neither begins while the other is running.
NextCancelSeq ==
    \/ ca.pc = "idle" /\ RecvSignal
    \/ HsGetPositions
    \/ HsCheckSignal
    \/ HsInsertOrder
    \/ HsPostOrder
    \/ HsUpdateStatus
    \/ HsInsertTrade
    \/ hs.pc = "recv" /\ CaVenueCancelAll
    \/ CaGetOpenOrders
    \/ CaUpdate

SpecCancelSeq == Init /\ [][NextCancelSeq]_vars

\* main started with a bankroll of 500 and no position in the database.
InitBus == Init /\ bankroll = 500 /\ positions = {}

\* The feed side as main wires it: two adapters, the aggregator and the two
\* strategies.
NextFeed ==
    \/ PolymarketFeedSend
    \/ BinanceFeedSend
    \/ AggRecv
    \/ AggUpdateState
    \/ AggRunStrategies
    \/ DropFeeds
    \/ DropAggregator
    \/ DropOrderManager

SpecFeed == InitBus /\ [][NextFeed]_vars

\* The order manager's run loop on the signal bus.
NextRun ==
    \/ SendSignal
    \/ DropAggregator
    \/ RunRecv
    \/ HsGetPositions
    \/ HsCheckSignal
    \/ HsInsertOrder
    \/ HsPostOrder
    \/ HsUpdateStatus
    \/ HsInsertTrade

SpecRun == InitBus /\ [][NextRun]_vars

\* The feed side started on a database that holds the position.
InitHeld ==
    /\ bankroll = 500
    /\ peak_bankroll = bankroll
    /\ trading_active = TRUE
    /\ call = NoCall
    /\ positions = {HeldPosition}
    /\ orders = <<>>
    /\ trades = <<>>
    /\ pnl_snapshots = <<>>
    /\ posted = <<>>
    /\ venue_open = {}
    /\ next_uuid = 1
    /\ hs = HsIdle
    /\ log = <<>>
    /\ ca = CaIdle
    /\ api = "idle"
    /\ running = TRUE
    /\ kills = "none"
    /\ market_bus = channel
    /\ signal_bus = channel
    /\ feed = FeedInit
    /\ agg = AggInit
    /\ run = RunInit
    /\ adapter = AdapterInit
    /\ strat = NoStrat

SpecHeld == InitHeld /\ [][NextFeed]_vars

\* The run loops of the two adapters, whose sessions bring no text frame.
NextBackoff ==
    \/ PolymarketConnect
    \/ PolymarketRead
    \/ PolymarketSleep
    \/ BinanceConnect
    \/ BinanceRead
    \/ BinanceRestTick
    \/ BinanceSleep

SpecBackoff == InitBus /\ [][NextBackoff]_vars

\* The run loops with their timers: a sleep that has begun ends.
SpecBackoffLive ==
    SpecBackoff /\ WF_vars(PolymarketSleep) /\ WF_vars(BinanceSleep)

\* The first try of each adapter and the session it leads to, text frames
\* included.
NextSession ==
    \/ PolymarketConnect
    \/ PolymarketRead
    \/ PolymarketHandleMessage
    \/ BinanceConnect
    \/ BinanceRead
    \/ BinanceHandleMessage

SpecSession == InitBus /\ [][NextSession]_vars

\* kelly_size alone, called with arbitrary arguments.
NextKelly == KellySize

SpecKelly == InitBus /\ [][NextKelly]_vars

\* IntraArbStrategy::evaluate alone, on arbitrary markets and prices.
NextIntra == IntraEvaluate

SpecIntra == InitBus /\ [][NextIntra]_vars

\* The positions store alone, called with arbitrary positions.
NextPositions ==
    \/ UpsertPosition
    \/ DeletePosition

SpecPositions == InitBus /\ [][NextPositions]_vars

\* LatencyArbStrategy::evaluate alone, on arbitrary contexts.
NextLatency == LatencyEvaluate

SpecLatency == InitBus /\ [][NextLatency]_vars

\* The RiskManager alone.
NextRisk ==
    \/ RiskUpdateBankroll
    \/ RiskCheckSignal
    \/ RiskKill
    \/ RiskResume
    \/ RiskIsActive

SpecRisk == Init /\ [][NextRisk]_vars

(***************************************************************************)
(* Properties.                                                             *)
(***************************************************************************)
Legal ==
    {<<"Pending", "Open">>, <<"Pending", "Failed">>, <<"Open", "Filled">>,
     <<"Open", "Cancelled">>, <<"Open", "Failed">>}

\* C1, as claimed: while handle_signal and cancel_all interleave, every change of
\* a persisted order's status is one of Pending->Open, Pending->Failed,
\* Open->Filled, Open->Cancelled, Open->Failed; in particular no order leaves
\* Filled, Cancelled or Failed.
C1_OnlyLegalTransitions ==
    [][\A id \in DOMAIN orders :
          LET old == status_from_row(orders[id].status)
              new == status_from_row(orders'[id].status)
          IN  old # new => <<old, new>> \in Legal]_vars

\* The order and trade rows and the venue requests that carry an id minted
\* while the logged invocation e of handle_signal ran.
OrdersOf(e) == {id \in DOMAIN orders : e.uuid_from <= id /\ id < e.uuid_to}

TradesOf(e) == {id \in DOMAIN trades : e.uuid_from <= id /\ id < e.uuid_to}

PostsOf(e) ==
    {i \in 1..Len(posted) :
        e.uuid_from <= posted[i].order_id /\ posted[i].order_id < e.uuid_to}

TradesFor(order_id) == {id \in DOMAIN trades : trades[id].order_id = order_id}

C2_NothingForRejected ==
    \A k \in 1..Len(log) :
        log[k].check = "reject" =>
            /\ OrdersOf(log[k]) = {} /\ TradesOf(log[k]) = {} /\ PostsOf(log[k]) = {}
            /\ log[k].post = "none"

C2_RejectStep ==
    (/\ hs.pc \in {"recv", "get_positions", "check_signal"}
     /\ hs' # hs)
    => /\ UNCHANGED <<positions, orders, trades, posted, venue_open>>
       /\ UNCHANGED <<peak_bankroll, trading_active>>
       /\ (/\ hs.pc = "check_signal"
           /\ ~check_signal(trading_active, hs.signal, hs.current_bankroll,
                            hs.total_exposure))
          => /\ hs'.pc = "recv"
             /\ Len(log') = Len(log) + 1
             /\ log'[Len(log')].check = "reject"

\* C2: a signal for which check_signal returns false makes handle_signal return
\* at once: no Order row, no Trade row and no post_order request carries an id
\* minted for it, and the steps of handle_signal up to and including the check
\* change neither the tables, nor the venue, nor the risk state.
C2_RejectedSignalLeavesNoTrace ==
    []C2_NothingForRejected /\ [][C2_RejectStep]_vars

\* C2, witness: a signal too large for the position limit was rejected while
\* trading was active, after another signal had been executed.
C2_Witness ==
    \E k \in 1..Len(log) :
        /\ log[k].check = "reject" /\ log[k].signal = Sig("Buy", 50, 60)
        /\ trading_active /\ orders # <<>>

\* C3, as claimed: post_order is never invoked in a state where trading_active
\* is false.
C3_PostOnlyWhileActive ==
    [][Len(posted') > Len(posted) => trading_active]_vars

\* What C4 promises for a logged invocation e: exactly one Order row, with the
\* signal's market, side, price and size, GTC and Open, and exactly one Trade row
\* that references it, with the order's price and size and the 20 bps fee.
OneOpenOrderOneTrade(e) ==
    /\ Cardinality(OrdersOf(e)) = 1
    /\ \A id \in OrdersOf(e) :
          /\ orders[id].market_id = e.signal.market_id
          /\ side_from_row(orders[id].side) = e.signal.side
          /\ orders[id].price = e.signal.price
          /\ orders[id].size = e.signal.size
          /\ order_type_from_row(orders[id].order_type) = "GTC"
          /\ status_from_row(orders[id].status) = "Open"
          /\ Cardinality(TradesFor(id)) = 1
          /\ \A t \in TradesFor(id) :
                /\ trades[t].price = orders[id].price
                /\ trades[t].size = orders[id].size
                /\ trades[t].fee = 2 * orders[id].price * orders[id].size

OneFailedOrderNoTrade(e) ==
    /\ Cardinality(OrdersOf(e)) = 1
    /\ \A id \in OrdersOf(e) :
          /\ orders[id].market_id = e.signal.market_id
          /\ status_from_row(orders[id].status) = "Failed"
          /\ TradesFor(id) = {}

C6_PersistedPendingBeforePost ==
    /\ \A i \in 1..Len(posted) : posted[i].order_id \in DOMAIN orders
    /\ hs.pc \in {"post_order", "update_status"}
          => /\ hs.order_id \in DOMAIN orders
             /\ status_from_row(orders[hs.order_id].status) = "Pending"

\* C6, witness: the process stopped after the venue accepted the order and
\* before the status update; the row is there, Pending.
C6_Witness ==
    /\ ~running /\ hs.pc = "update_status" /\ hs.resp = "accepted"
    /\ hs.order_id \in DOMAIN orders
    /\ orders[hs.order_id].status = "Pending"

\* C7: once trading_active is false, no call of update_bankroll, check_signal,
\* kill or is_active makes it true; a step that turns it on is a resume.
C7_StickyOff ==
    [][(~trading_active /\ trading_active') => call'.op = "resume"]_vars

\* C7, witness: with the switch off, update_bankroll returned true and the
\* switch is still off.
C7_Witness ==
    ~trading_active /\ call.op = "update_bankroll" /\ call.ret = TRUE

C8_Step ==
    /\ peak_bankroll' >= peak_bankroll
    /\ call'.op = "update_bankroll"
          => peak_bankroll' =
                 (IF call'.b > peak_bankroll THEN call'.b ELSE peak_bankroll)
    /\ call'.op \in {"kill", "resume", "check_signal", "is_active"}
          => peak_bankroll' = peak_bankroll

\* C8: peak_bankroll starts at starting_bankroll and never decreases:
\* update_bankroll(b) sets it to max(peak, b), every other call leaves it.
C8_PeakNonDecreasing ==
    (peak_bankroll = bankroll) /\ [][C8_Step]_vars

\* C8, witness: resume was called after the peak had risen above the start and
\* the switch had tripped; the peak is still the risen one.
C8_Witness ==
    call.op = "resume" /\ peak_bankroll = 600 /\ bankroll = 500

\* C8, second case: a call that trips the switch still raises the peak.
C8_WitnessTrip ==
    call.op = "update_bankroll" /\ call.ret = FALSE /\ peak_bankroll = 340
        /\ bankroll = 330

C9_Step ==
    call'.op = "update_bankroll" =>
        LET b == call'.b
            peak == IF b > peak_bankroll THEN b ELSE peak_bankroll
            trip == b < min_bankroll \/ (peak - b) * 100 > max_drawdown_pct * peak
        IN  /\ call'.ret = ~trip
            /\ trading_active' = (IF trip THEN FALSE ELSE trading_active)

\* C9: update_bankroll(b) returns false and turns trading_active off exactly
\* when b < min_bankroll or (peak' - b)/peak' > max_drawdown_pct, peak' being
\* max(peak, b); otherwise it returns true and leaves trading_active as it was.
C9_UpdateBankrollTrips ==
    [][C9_Step]_vars

\* C9, witness: at exactly 30% below the peak of 600 the call returned true.
C9_Witness ==
    /\ call.op = "update_bankroll" /\ call.b = 420 /\ peak_bankroll = 600
    /\ call.ret = TRUE /\ trading_active

\* C9, second case: past 30% below the peak the call returned false.
C9_WitnessTrip ==
    /\ call.op = "update_bankroll" /\ call.b = 410 /\ peak_bankroll = 600
    /\ call.ret = FALSE /\ ~trading_active

C10_Step ==
    call'.op = "check_signal" =>
        LET s == call'.signal
            notional == s.size * s.price
        IN  /\ call'.ret = FALSE <=>
                  \/ ~trading_active
                  \/ call'.b < min_bankroll
                  \/ notional > max_position_pct * call'.b
                  \/ call'.exposure + notional > max_exposure * 100
            /\ UNCHANGED <<trading_active, peak_bankroll>>

\* C10: check_signal returns false exactly when trading_active is false, or
\* bankroll < min_bankroll, or size*price > max_position_pct*bankroll, or
\* total_exposure + size*price > max_exposure; it changes neither
\* trading_active nor peak_bankroll.
C10_CheckSignal ==
    [][C10_Step]_vars

\* C10, witness: a signal that brings the exposure to exactly max_exposure and
\* is exactly max_position_pct of the bankroll was admitted.
C10_Witness ==
    /\ call.op = "check_signal" /\ call.ret = TRUE
    /\ call.signal = Sig("Buy", 50, 50) /\ call.exposure = 7500 /\ call.b = 500

C11_Step ==
    /\ (api = "idle" /\ api' = "cancel_all")
          => /\ ~trading_active'
             /\ peak_bankroll' = peak_bankroll
             /\ ~trading_active => UNCHANGED <<peak_bankroll, trading_active>>
             /\ UNCHANGED <<venue_open, kills>>
    /\ (api = "cancel_all" /\ api' = "idle")
          => /\ ~trading_active'
             /\ UNCHANGED <<peak_bankroll, trading_active>>
             /\ \/ venue_open' = {} /\ kills' = "cleared"
                \/ UNCHANGED <<venue_open, kills>>

\* C11: the kill endpoint turns trading_active off before it calls the venue's
\* cancel_all, so trading_active is false while that call is out and when the
\* endpoint answers, whatever the call returned; a kill on a state that is
\* already off leaves the risk state (peak_bankroll, trading_active) as it is,
\* so two kills leave what one leaves.
C11_KillIdempotent ==
    [](api = "cancel_all" => ~trading_active) /\ [][C11_Step]_vars

\* C11, witness: the endpoint has answered after the venue's cancel_all left
\* an order resting; the switch, which only the kill turned (no
\* snapshot tick has run), is off.
C11_Witness ==
    /\ api = "idle" /\ kills = "none" /\ venue_open # {}
    /\ pnl_snapshots = <<>> /\ bankroll = 500 /\ ~trading_active

C12_Step ==
    /\ (ca.pc = "update" /\ ca'.pc = "idle" /\ ca'.result = "Ok")
          => /\ \A id \in ca.before : status_from_row(orders'[id].status) = "Cancelled"
             /\ \A id \in DOMAIN orders' :
                   status_from_row(orders'[id].status) \notin {"Pending", "Open"}
             /\ get_open_orders(orders') = {}
    /\ (ca' # ca /\ ca.pc # "idle" /\ ca.before = {})
          => orders' = orders

\* C12: when handle_signal and cancel_all never run beside each other, at the
\* return of Ok(()) from cancel_all every order that was Pending or Open when it
\* began is Cancelled and no order is Pending or Open, so get_open_orders is
\* empty; and a call of cancel_all that begins with no order Pending or Open
\* (as the second of two calls does) changes no row of orders.
C12_CancelAllIdempotent ==
    [][C12_Step]_vars

\* C12, witness: a second cancel_all has returned Ok(()) after a first one had
\* cancelled an order left Pending and an order left Open; it found nothing
\* Pending or Open, and both orders are Cancelled.
C12_Witness ==
    /\ ca.calls = 2 /\ ca.pc = "idle" /\ ca.result = "Ok" /\ ca.before = {}
    /\ Len(log) = 2 /\ log[1].post = "accepted" /\ log[2].post = "accepted"
    /\ log[1].result = "err" /\ log[2].result = "ok"
    /\ \A k \in 1..2 : orders[log[k].order_id].status = "Cancelled"

\* C13: an invocation of handle_signal that ended before post_order without a
\* rejection by check_signal (get_positions or insert_order failed) returned the
\* error, no post_order request carries an id minted for its signal, and no
\* Trade row was written for it.
C13_EarlyFailureReturnsError ==
    \A k \in 1..Len(log) :
        (log[k].check # "reject" /\ log[k].post = "none")
            => /\ log[k].result = "err"
               /\ PostsOf(log[k]) = {}
               /\ TradesOf(log[k]) = {}
               /\ \A t \in DOMAIN trades : trades[t].order_id # log[k].order_id

\* C13, witness: get_positions failed for one signal and insert_order failed
\* for the next, and an order of neither is at the venue.
C13_Witness ==
    /\ Len(log) = 2 /\ posted = <<>> /\ trades = <<>>
    /\ log[1].check = "none" /\ log[1].result = "err"
    /\ log[2].check = "pass" /\ log[2].post = "none" /\ log[2].result = "err"
    /\ log[2].order_id = 1 /\ orders = <<>>

\* C14: an invocation of handle_signal whose order the venue accepted and that
\* returned an error (update_order_status(Open) or insert_trade failed) sent
\* that one post_order request and nothing else; the order's row is as the
\* failure left it, Pending when the update failed and Open when the insert of
\* the Trade failed, no Trade row references it, and the order is still at the
\* venue as long as no kill request has had the venue cancel everything.
C14_LateFailureLeavesOrderAtVenue ==
    \A k \in 1..Len(log) :
        (log[k].post = "accepted" /\ log[k].result = "err")
            => LET id == log[k].order_id
               IN  /\ Cardinality(PostsOf(log[k])) = 1
                   /\ \A i \in PostsOf(log[k]) :
                         posted[i].order_id = id /\ posted[i].outcome = "accepted"
                   /\ OrdersOf(log[k]) = {id}
                   /\ TradesFor(id) = {} /\ TradesOf(log[k]) = {}
                   /\ \/ /\ log[k].uuid_to = id + 1
                         /\ status_from_row(orders[id].status) = "Pending"
                      \/ /\ log[k].uuid_to = id + 2
                         /\ status_from_row(orders[id].status) = "Open"
                   /\ kills = "none" => id \in venue_open

\* C14, witness: the update to Open failed for one accepted order and the
\* insert of the Trade failed for the next; both rest at the venue, the first
\* Pending and the second Open in persistence, and there is no trade.
C14_Witness ==
    /\ Len(log) = 2 /\ trades = <<>> /\ kills = "none"
    /\ \A k \in 1..2 : log[k].post = "accepted" /\ log[k].result = "err"
    /\ orders[log[1].order_id].status = "Pending"
    /\ orders[log[2].order_id].status = "Open"
    /\ venue_open = {log[1].order_id, log[2].order_id}

\* post_order was called at most once for every order and for every signal
\* handled.
C16_PostedAtMostOnce ==
    /\ \A i, j \in 1..Len(posted) :
          posted[i].order_id = posted[j].order_id => i = j
    /\ \A k \in 1..Len(log) : Cardinality(PostsOf(log[k])) <= 1

\* C16, as claimed: post_order is called at most once for every signal handled,
\* and whenever the venue refused the order or the call failed, the order is
\* Failed in persistence.
C16_PostedOnceThenFailed ==
    /\ C16_PostedAtMostOnce
    /\ \A k \in 1..Len(log) :
          log[k].post \in {"rejected", "error"}
              => status_from_row(orders[log[k].order_id].status) = "Failed"

\* C16, amended: post_order is called at most once for every signal handled;
\* whenever the venue refused the order or the call failed, the order is Failed
\* in persistence if handle_signal returned Ok and is left Pending if the update
\* to Failed itself failed, and in both cases it is not submitted again.
C16_PostedOnceThenFailedIfOk ==
    /\ C16_PostedAtMostOnce
    /\ \A k \in 1..Len(log) :
          log[k].post \in {"rejected", "error"}
              => /\ Cardinality(PostsOf(log[k])) = 1
                 /\ status_from_row(orders[log[k].order_id].status) =
                        (IF log[k].result = "ok" THEN "Failed" ELSE "Pending")

\* C16, witness: a transport error and then a venue reject have been handled;
\* each order was posted once and is Failed.
C16_Witness ==
    /\ Len(log) = 2 /\ Len(posted) = 2
    /\ log[1].post = "error" /\ log[2].post = "rejected"
    /\ posted[1].order_id = log[1].order_id /\ posted[2].order_id = log[2].order_id
    /\ \A k \in 1..2 : log[k].result = "ok" /\ orders[log[k].order_id].status = "Failed"

\* The signals run received from the bus, in the order it received them.
C15_Received == SelectSeq(run.trace, LAMBDA e : e.result = "Ok")

\* The places on the signal bus of the signals a Lagged report dropped.
C15_Dropped(e) ==
    (e.tail - signal_capacity - e.n + 1) .. (e.tail - signal_capacity)

\* C15: the run loop goes on after a failed handle_signal and after Lagged(n).
\* The signals handle_signal has handled or is handling are, one for one and
\* in order, the signals recv returned, whatever the earlier calls returned; a
\* signal dropped by lag is never among them, so that it reaches neither
\* check_signal nor the database; and the loop has ended only on Closed, with
\* every sender of the signal bus gone and nothing left to receive.
C15_RunLoopContinues ==
    /\ Len(C15_Received) = Len(log) + (IF hs.pc = "recv" THEN 0 ELSE 1)
    /\ \A k \in 1..Len(log) : log[k].signal = C15_Received[k].msg
    /\ hs.pc # "recv" => hs.signal = C15_Received[Len(C15_Received)].msg
    /\ \A i, j \in 1..Len(C15_Received) :
         i < j => C15_Received[i].index < C15_Received[j].index
    /\ \A i, j \in 1..Len(run.trace) :
         run.trace[i].result = "Lagged" /\ run.trace[j].result = "Ok"
             => run.trace[j].index \notin C15_Dropped(run.trace[i])
    /\ Cardinality(DOMAIN orders) <= Len(C15_Received)
    /\ \A i \in 1..Len(run.trace) :
         run.trace[i].result = "Closed" <=> (run.pc = "ended" /\ i = Len(run.trace))
    /\ run.pc = "ended" => ~signal_bus.tx /\ signal_bus.next = signal_bus.tail
    /\ run.pc = "loop" /\ hs.pc = "recv" /\ Len(log) < MaxSignals
           /\ signal_bus.next < signal_bus.tail
         => ENABLED RunRecv

\* Lagged(1) was reported and logged, the next signal was received and its
\* handle_signal failed, and the signal after it was received and handled.
C15_Witness ==
    /\ Len(run.trace) = 3 /\ run.pc = "loop"
    /\ run.trace[1].result = "Lagged" /\ run.trace[1].n = 1
    /\ run.trace[2].result = "Ok" /\ run.trace[2].index = 2
    /\ run.trace[3].result = "Ok" /\ run.trace[3].index = 3
    /\ Len(log) = 2 /\ log[1].result = "err" /\ log[2].result = "ok"
    /\ log[2].check = "pass"

RECURSIVE C17_State(_)
\* The maps induced by the first N events the aggregator received.
C17_State(N) ==
    IF N = 0
    THEN [prices |-> <<>>, orderbooks |-> <<>>, binance_prices |-> <<>>]
    ELSE update_state(C17_State(N - 1), Delivered[N].msg)

RECURSIVE C17_Sent(_)
\* The signal bus after the signals of the first N events were sent to a bus
\* that has its receiver.
C17_Sent(N) ==
    IF N = 0 THEN channel
    ELSE send_all(C17_Sent(N - 1), agg.emitted[N].signals)

\* C17: the aggregator takes the events of the market bus one at a time, in
\* the order they arrived, and applies each to its maps before the strategies
\* run for it.  The context built for the N-th received event is the one made
\* of the maps induced by received events 1..N and of that event, so that it
\* depends on the event sequence alone; the signals sent for it are the ones
\* the strategies return on that context, and the signal bus holds nothing
\* else.
C17_ContextIsStateOfEvents ==
    LET busy == IF agg.pc \in {"update_state", "run_strategies"} THEN 1 ELSE 0
        applied == IF agg.pc = "update_state" THEN 1 ELSE 0
    IN  /\ Len(agg.contexts) = Len(Delivered) - busy
        /\ Len(agg.emitted) = Len(agg.contexts)
        /\ \A i, j \in 1..Len(Delivered) :
             i < j => Delivered[i].index < Delivered[j].index
        /\ \A N \in 1..Len(Delivered) :
             Delivered[N].msg = event_at(market_bus, Delivered[N].index)
        /\ busy = 1 => agg.event = Delivered[Len(Delivered)].msg
        /\ [prices |-> agg.prices, orderbooks |-> agg.orderbooks,
            binance_prices |-> agg.binance_prices]
               = C17_State(Len(Delivered) - applied)
        /\ \A N \in 1..Len(agg.contexts) :
             /\ agg.contexts[N] = context(bankroll, C17_State(N), Delivered[N].msg)
             /\ agg.emitted[N].signals = evaluate(agg.contexts[N])
        /\ run.pc = "loop" => signal_bus.runs = C17_Sent(Len(agg.emitted)).runs

\* Three events were received: a Binance ticker above the threshold, for
\* which no strategy had a Polymarket price, then two Polymarket prices, for
\* each of which a Buy of 25 was sent.
C17_Witness ==
    /\ Len(agg.contexts) = 3 /\ agg.pc = "recv"
    /\ agg.contexts[1].prices = <<>> /\ agg.emitted[1].signals = <<>>
    /\ agg.contexts[2].binance_prices = [k \in {"BTCUSDT"} |-> 110000]
    /\ agg.contexts[2].prices = [k \in {"placeholder_yes_token"} |-> 40]
    /\ Len(agg.emitted[2].signals) = 1
    /\ agg.emitted[2].signals[1].side = "Buy" /\ agg.emitted[2].signals[1].size = 25
    /\ Len(agg.emitted[3].signals) = 1
    /\ signal_bus.tail = 2

\* C18: the events of one adapter that reach the aggregator reach it in the
\* order the adapter sent them, however the sends of the two adapters
\* interleave: of two received events of the same feed the later received is
\* the later sent.  Lag leaves events out and reorders none.
C18_PerFeedOrder ==
    /\ \A i, j \in 1..Len(Delivered) :
         i < j /\ Delivered[i].msg.feed = Delivered[j].msg.feed
             => Delivered[i].msg.seq < Delivered[j].msg.seq
    /\ \A i \in 1..Len(Delivered) :
         /\ Delivered[i].msg.feed \in DOMAIN feed
         /\ Delivered[i].msg.seq \in 1..feed[Delivered[i].msg.feed].sent

\* The aggregator received the first of 1024 Polymarket events, 1024 Binance
\* tickers followed, and it lagged by 1023, losing the Polymarket events
\* left, and received the first two tickers in the order they were sent.
C18_Witness ==
    /\ Len(agg.trace) = 4
    /\ agg.trace[1].result = "Ok" /\ agg.trace[1].msg.feed = "polymarket"
    /\ agg.trace[2].result = "Lagged" /\ agg.trace[2].n = 1023
    /\ agg.trace[3].result = "Ok" /\ agg.trace[3].msg.feed = "binance"
    /\ agg.trace[3].msg.seq = 1
    /\ agg.trace[4].result = "Ok" /\ agg.trace[4].msg.feed = "binance"
    /\ agg.trace[4].msg.seq = 2

RECURSIVE C19_Stored(_)
\* The signals of the first N events whose send returned Ok.
C19_Stored(N) ==
    IF N = 0 THEN 0
    ELSE C19_Stored(N - 1)
             + (IF agg.emitted[N].returned = "Ok" THEN Len(agg.emitted[N].signals)
                ELSE 0)

\* C19: a send on either bus never blocks its producer.  An adapter that has
\* a message can send it, and the aggregator that has built a context can
\* send its signals, whether the buffer is full, the consumer is behind or
\* gone.  A message is left out of the bus only when the bus has no receiver,
\* and the producer goes on all the same.
C19_SendNeverBlocks ==
    /\ market_bus.tx /\ feed["polymarket"].calls + feed["binance"].calls < MaxEvents
         => ENABLED PolymarketFeedSend /\ ENABLED BinanceFeedSend
    /\ agg.alive /\ agg.pc = "run_strategies" => ENABLED AggRunStrategies
    /\ market_bus.tail = (feed["polymarket"].sent - feed["polymarket"].dropped)
                             + (feed["binance"].sent - feed["binance"].dropped)
    /\ \A f \in DOMAIN feed : feed[f].dropped > 0 => ~market_bus.rx
    /\ signal_bus.tail = C19_Stored(Len(agg.emitted))
    /\ \A N \in 1..Len(agg.emitted) :
         agg.emitted[N].returned = "Err" => ~signal_bus.rx

\* With the aggregator gone, the Binance adapter sent a ticker and the
\* Polymarket adapter 1024 events after it: none was stored, and both
\* adapters are back in their loops.
C19_Witness ==
    /\ ~market_bus.rx /\ market_bus.tx /\ market_bus.tail = 0
    /\ feed["binance"] = [calls |-> 1, sent |-> 1, dropped |-> 1]
    /\ feed["polymarket"] = [calls |-> 1, sent |-> 1024, dropped |-> 1024]

RECURSIVE C20_Cursor(_)
\* The place of the aggregator on the market bus after the first i results
\* of recv: the index of the event received, or behind the oldest event
\* kept after a Lagged report.
C20_Cursor(i) ==
    IF i = 0 THEN 0
    ELSE CASE agg.trace[i].result = "Ok" -> agg.trace[i].index
           [] agg.trace[i].result = "Lagged" -> agg.trace[i].tail - market_capacity
           [] agg.trace[i].result = "Closed" -> C20_Cursor(i - 1)

\* recv on a bus of the given capacity whose receiver is k messages behind:
\* Lagged(k - capacity) when k is above the capacity, the next message when
\* it is not.
C20_Capacity(capacity) ==
    \A k \in {1, capacity - 1, capacity, capacity + 1, 2 * capacity} :
        LET r == recv([channel EXCEPT !.tail = k], capacity)
        IN  IF k > capacity
            THEN r.result = "Lagged" /\ r.n = k - capacity /\ r.next = k - capacity
            ELSE r.result = "Ok" /\ r.index = 1

\* C20: the market bus keeps at most 1024 events for the aggregator and the
\* signal bus at most 256 signals for the order manager.  An event is
\* received only when the aggregator is at most 1024 behind, and it is the
\* next one; when the aggregator is further behind, recv reports Lagged(n), n
\* being the oldest events beyond the 1024 kept, the aggregator logs it and
\* stays in its loop, and what it receives next is the oldest event kept.
C20_LaggedThenInOrder ==
    /\ market_capacity = 1024 /\ signal_capacity = 256
    /\ C20_Capacity(market_capacity) /\ C20_Capacity(signal_capacity)
    /\ market_bus.next = C20_Cursor(Len(agg.trace))
    /\ \A i \in 1..Len(agg.trace) :
         LET e == agg.trace[i]
             behind == e.tail - C20_Cursor(i - 1)
         IN  /\ e.result = "Ok" => behind <= market_capacity
                                     /\ e.index = C20_Cursor(i - 1) + 1
             /\ e.result = "Lagged" => behind > market_capacity
                                         /\ e.n = behind - market_capacity
             /\ e.result = "Closed" => behind = 0
    /\ Len(agg.trace) > 0 /\ agg.trace[Len(agg.trace)].result = "Lagged"
         => /\ agg.pc = "recv"
            /\ agg.alive /\ Len(Delivered) < MaxDelivered => ENABLED AggRecv

\* 1025 events were sent before the aggregator received any: recv reported
\* Lagged(1), and the three receives after it returned the events at places
\* 2, 3 and 4.
C20_Witness ==
    /\ Len(agg.trace) = 4
    /\ agg.trace[1].result = "Lagged" /\ agg.trace[1].n = 1
    /\ agg.trace[1].tail = market_capacity + 1
    /\ \A i \in 2..4 : agg.trace[i].result = "Ok" /\ agg.trace[i].index = i

\* C21: in each adapter's run loop the reconnect delay starts at 1000 ms, is
\* doubled after each failed attempt, never exceeds 30000 ms and is reset to
\* 1000 ms by a successful session: backoff_ms and every delay slept are
\* within [1000, 30000]; the delay after the first try and after a
\* successful session is 1000; after a failure that follows a failure it is
\* twice the delay before, capped; and after a failure that follows a
\* successful session it is 1000 again.
C21_BackoffDoubledPerFailure ==
    \A f \in DOMAIN adapter :
        LET a == adapter[f]
        IN  /\ a.backoff_ms \in initial_backoff_ms..max_backoff_ms
            /\ a.delay # 0 => a.delay \in initial_backoff_ms..max_backoff_ms
            /\ a.pc = "sleep" /\ a.before = "none"
                 => a.backoff_ms = initial_backoff_ms
            /\ a.pc = "sleep" /\ a.result = "Ok"
                 => a.backoff_ms = initial_backoff_ms
            /\ a.pc = "sleep" /\ a.result = "Err" /\ a.before = "Err"
                 => a.backoff_ms = next_backoff(a.delay)
            /\ a.pc = "sleep" /\ a.result = "Err" /\ a.before = "Ok"
                 => a.backoff_ms = initial_backoff_ms

\* C22: after a session that the remote ended with a Close frame the adapter
\* sleeps exactly 1000 ms before it connects again, whatever backoff_ms was
\* when the session began: until the next connect_async, the delay about to
\* be slept, or the delay slept, is 1000.
C22_CleanCloseWaitsMinimum ==
    \A f \in DOMAIN adapter :
        adapter[f].frame = "Close"
            => \/ adapter[f].pc = "sleep"
                    /\ adapter[f].backoff_ms = initial_backoff_ms
               \/ adapter[f].pc = "connect" /\ adapter[f].delay = initial_backoff_ms

\* The Binance session began with backoff_ms at its cap, the remote closed
\* it, and the adapter has slept 1000 ms and is about to connect.
C22_Witness ==
    /\ adapter["binance"].pc = "connect" /\ adapter["binance"].frame = "Close"
    /\ adapter["binance"].entered = max_backoff_ms
    /\ adapter["binance"].delay = initial_backoff_ms

\* C23: the spot adapter tries the WS endpoints in their configured order:
\* it calls connect_async on an endpoint only after every endpoint before it
\* has failed in this try, it is in a session only on the endpoint that
\* connected, which is the last it tried, and it is in the REST polling loop
\* only after every endpoint has failed in this try.
C23_EndpointsInOrder ==
    LET a == adapter["binance"]
        failed(n) == \A i \in 1..n : a.tried[i] = "Err"
    IN  /\ a.endpoint \in 1..Len(WS_ENDPOINTS)
        /\ a.pc = "connect" => Len(a.tried) = a.endpoint - 1 /\ failed(a.endpoint - 1)
        /\ a.pc = "session"
             => /\ Len(a.tried) = a.endpoint /\ failed(a.endpoint - 1)
                /\ a.tried[a.endpoint] = "Ok"
        /\ a.pc = "rest" => Len(a.tried) = Len(WS_ENDPOINTS) /\ failed(Len(a.tried))
        /\ a.failures > 0 => failed(Len(a.tried)) /\ Len(a.tried) = Len(WS_ENDPOINTS)

\* The first endpoint failed and the second connected: the adapter is in a
\* session on the second, in which it has answered a Ping.
C23_Witness ==
    /\ adapter["binance"].pc = "session" /\ adapter["binance"].endpoint = 2
    /\ adapter["binance"].tried = <<"Err", "Ok">>
    /\ adapter["binance"].frame = "Ping"

\* C24: the REST polling loop returns an error when 30 consecutive ticks
\* have yielded no price, a tick that yields one setting the count back to
\* 0: the loop is never still polling with 30 failed ticks in a row behind
\* it, it has returned its error with exactly 30, and run then sleeps and
\* tries the WS endpoints again from the first.
C24_RestErrorAfterThirty ==
    LET a == adapter["binance"]
    IN  /\ a.pc = "rest" => a.failures < max_rest_failures
        /\ a.pc = "sleep" /\ a.result = "Err" => a.failures = max_rest_failures
        /\ a.pc = "connect" => a.failures = 0

\* C25: a text frame that is ill formed (not parseable, of an unknown type,
\* with a missing or non-numeric price) makes the adapter send no event and
\* ends neither the session nor the adapter, and every well-formed text
\* makes it send exactly one event: for each text handled in the session the
\* events sent are one if it was well formed and none if it was not, and the
\* adapter is in its read loop after it.
C25_IllFormedDiscarded ==
    \A f \in DOMAIN adapter :
        /\ \A i \in 1..Len(adapter[f].handled) :
             adapter[f].handled[i].sent
                 = (IF adapter[f].handled[i].wellformed THEN 1 ELSE 0)
        /\ adapter[f].frame = "Text" => adapter[f].pc = "session"

\* C26: the run loop of an adapter never returns.  Whatever its try returned
\* (after a failed connection, a read error, a remote close, the end of the
\* stream or a failed REST polling) run is in its sleep, and from its sleep
\* it always comes to the next connect_async.
C26_AdaptersNeverReturn ==
    \A f \in {"polymarket", "binance"} :
        /\ [](adapter[f].pc \in {"connect", "session", "rest", "sleep"})
        /\ [](adapter[f].result # "none" => adapter[f].pc = "sleep")
        /\ (adapter[f].pc = "sleep") ~> (adapter[f].pc = "connect")

\* REST polling has failed after both WS endpoints, run has slept and tried
\* again, and is in its sleep once more with backoff_ms at its cap.
C26_Witness ==
    /\ adapter["binance"].pc = "sleep" /\ adapter["binance"].result = "Err"
    /\ adapter["binance"].failures > max_rest_failures
    /\ adapter["binance"].backoff_ms = max_backoff_ms
    /\ adapter["polymarket"].pc = "sleep" /\ adapter["polymarket"].frame = "Error"

\* C27: while the table positions holds a nonzero position in the market of
\* the latency strategy, no run of the strategies emits a signal for that
\* market.
C27_NoSignalWhilePositionHeld ==
    (\E p \in get_positions(positions) : p.market_id = "placeholder_market")
        => \A i \in 1..Len(agg.emitted) :
               \A k \in 1..Len(agg.emitted[i].signals) :
                   agg.emitted[i].signals[k].market_id # "placeholder_market"

\* C28: kelly_size returns 0 whenever the price is at most 0 or at least 1 or
\* the confidence is at most 0, and whatever its arguments it never returns a
\* negative size.
C28_KellyZeroAndNonNegative ==
    strat.op = "kelly_size" =>
        /\ strat.returned.n >= 0 /\ strat.returned.d > 0
        /\ (strat.args[2] <= 0 \/ strat.args[2] >= 100 \/ strat.args[1] <= 0)
               => strat.returned.n = 0

\* A confident call at price 0 returned 0.
C28_Witness ==
    /\ strat.op = "kelly_size" /\ strat.args = <<75, 0, 500>>
    /\ strat.returned.n = 0

\* C29: for a price in (0,1), a confidence in (0,1] and a bankroll of at least
\* 0, the size is at most max_position_pct of the bankroll and at most half
\* the bankroll over the price, and it is the smaller of max_position_pct of
\* the bankroll and half of f* times the bankroll, f* being
\* (confidence - price)/(1 - price) or 0 if that is negative.
C29_HalfKellyBound ==
    (/\ strat.op = "kelly_size"
     /\ strat.args[1] \in 1..100 /\ strat.args[2] \in 1..99 /\ strat.args[3] >= 0)
    => LET c == strat.args[1]
           p == strat.args[2]
           B == strat.args[3]
           size == strat.returned
           fstar_n == IF c > p THEN c - p ELSE 0
           capped == fstar_n * 100 >= 2 * strategy_max_position_pct * (100 - p)
       IN  /\ size.n * 100 <= strategy_max_position_pct * B * size.d
           /\ size.n * 2 * p <= 100 * B * size.d
           /\ IF capped
              THEN size.n * 100 = strategy_max_position_pct * B * size.d
              ELSE size.n * 2 * (100 - p) = fstar_n * B * size.d

\* Below the cap: confidence 0.45 at price 0.40 with 500 gives 125/6 = 20.83.
C29_Witness ==
    /\ strat.op = "kelly_size" /\ strat.args = <<45, 40, 500>>
    /\ strat.returned.n * 6 = 125 * strat.returned.d

\* C30: for each market an IntraArbStrategy is built on, evaluate returns
\* signals only if every outcome token of the market has a price and the sum
\* of these prices is below 1 - min_margin; it then returns one Buy signal
\* per outcome token, in their order, each at the price of its token.  If a
\* price is missing or the sum is not below 1 - min_margin it returns no
\* signal for the market.
C30_IntraArbSignals ==
    strat.op = "intra_arb_evaluate" =>
        LET markets == strat.args[1]
            prices == strat.args[2]
        IN  /\ \A k \in 1..Len(strat.returned) :
                   \E j \in 1..Len(markets) : strat.returned[k].market_id = markets[j][1]
            /\ \A j \in 1..Len(markets) :
                   LET token_ids == markets[j][2]
                       signals == SelectSeq(strat.returned,
                                            LAMBDA s : s.market_id = markets[j][1])
                       known == \A i \in 1..Len(token_ids) : token_ids[i] \in DOMAIN prices
                       total == sum([i \in 1..Len(token_ids) |->
                                        [price |-> prices[token_ids[i]]]])
                   IN  IF known /\ total # NaN /\ total < 100 - min_margin
                       THEN /\ Len(signals) = Len(token_ids)
                            /\ \A i \in 1..Len(token_ids) :
                                   /\ signals[i].side = "Buy"
                                   /\ signals[i].strategy = "intra_arb"
                                   /\ signals[i].price = prices[token_ids[i]]
                       ELSE signals = <<>>

\* Both outcomes at 0.48 with a bankroll of 500: two Buy signals at 0.48 of
\* 12 dollars each.
C30_Witness ==
    /\ strat.op = "intra_arb_evaluate"
    /\ strat.args[1] = << <<"m1", <<"tok_A", "tok_B">>>> >>
    /\ strat.args[2] = [k \in {"tok_A", "tok_B"} |-> 48]
    /\ strat.args[3] = 500
    /\ Len(strat.returned) = 2
    /\ \A i \in 1..2 : strat.returned[i].price = 48 /\ strat.returned[i].size = 12

C32_Expected(ctx) ==
    IF ~("BTCUSDT" \in DOMAIN ctx.binance_prices
             /\ "placeholder_yes_token" \in DOMAIN ctx.prices)
    THEN <<>>
    ELSE LET s == ctx.binance_prices["BTCUSDT"]
             y == ctx.prices["placeholder_yes_token"]
             numbers == s # NaN /\ y # NaN
             above == numbers /\ (s - threshold_price) * 100 > min_edge_pct * threshold_price
                              /\ y < 90
             below == numbers /\ (threshold_price - s) * 100 > min_edge_pct * threshold_price
                              /\ y > 10
             c == IF above THEN confidence_of(s - threshold_price)
                  ELSE confidence_of(threshold_price - s)
             size == IF above THEN kelly_size(c, y, ctx.bankroll)
                     ELSE kelly_size(c, 100 - y, ctx.bankroll)
         IN  IF (above \/ below) /\ size.n > size.d
             THEN <<[strategy |-> "latency_arb", market_id |-> "placeholder_market",
                     side |-> IF above THEN "Buy" ELSE "Sell", confidence |-> c,
                     price |-> y, size |-> size.n \div size.d]>>
             ELSE <<>>

\* C32 as stated: one call of evaluate returns at most one signal, the Buy or
\* the Sell that the spot price, the YES price and the Kelly size call for,
\* and nothing when one of the two prices is unknown.
C32_OneSignalByEdge ==
    strat.op = "latency_arb_evaluate" =>
        /\ Len(strat.returned) <= 1
        /\ strat.returned = C32_Expected(strat.args[1])

\* Spot 10% below the threshold, YES at 0.40, bankroll 500, no position: one
\* Sell at 0.40 of 25 dollars.
C32_Witness ==
    /\ strat.op = "latency_arb_evaluate"
    /\ strat.args[1].binance_prices = [k \in {"BTCUSDT"} |-> 90000]
    /\ strat.args[1].prices = [k \in {"placeholder_yes_token"} |-> 40]
    /\ strat.args[1].bankroll = 500 /\ strat.args[1].positions = <<>>
    /\ Len(strat.returned) = 1
    /\ strat.returned[1].side = "Sell" /\ strat.returned[1].price = 40
    /\ strat.returned[1].size = 25

\* What C33 says of two returned invocations i < j of handle_signal: each
\* minted its own Order id, has its own Order row and its own post_order call.
C33_TwoOrdersTwoPosts(i, j) ==
    /\ log[i].order_id # log[j].order_id
    /\ \A k \in {i, j} :
         /\ log[k].order_id \in DOMAIN orders
         /\ orders[log[k].order_id].market_id = log[k].signal.market_id
         /\ \E n \in 1..Len(posted) : posted[n].order_id = log[k].order_id

C34_PositionsNeverWritten ==
    [][/\ positions' = positions
       /\ hs'.pc = "check_signal"
              => hs'.total_exposure = SumExposure(get_positions(positions))]_vars

\* One order was accepted and its Trade recorded; the next signal is about to
\* be checked against the exposure of the one position found at startup.
C34_Witness ==
    /\ Len(log) = 1 /\ log[1].post = "accepted" /\ log[1].result = "ok"
    /\ DOMAIN trades # {}
    /\ hs.pc = "check_signal" /\ positions = {Pos(150, 50)}
    /\ hs.total_exposure = 7500

\* C35: cancel_all marks an order Cancelled only when the venue's cancel_all
\* succeeded.  While the call that is running had any other answer from the
\* venue, no order becomes Cancelled and the call does not return Ok.
C35_CancelledOnlyAfterVenueSuccess ==
    [][(ca.pc \in {"get_open_orders", "update"} /\ ca.venue # "Ok(true)")
          => /\ \A id \in DOMAIN orders :
                  orders'[id].status = "Cancelled" => orders[id].status = "Cancelled"
             /\ ca'.result # "Ok"]_vars

\* C36: check_signal does not look at the peak.  After resume, and until
\* update_bankroll or kill is called, a signal within the position and exposure
\* limits, checked with a bankroll in drawdown beyond max_drawdown_pct but not
\* below min_bankroll, is admitted; the next update_bankroll called with such a
\* bankroll turns trading_active off again and returns false.
C36_InDrawdown(b) == b >= min_bankroll /\ drawdown_exceeded(peak_bankroll, b)

C36_ResumeAdmitsInDrawdown ==
    [][call.since_resume =>
         /\ (/\ call'.op = "check_signal"
             /\ C36_InDrawdown(call'.b)
             /\ call'.signal.size * call'.signal.price <= max_position_pct * call'.b
             /\ call'.exposure + call'.signal.size * call'.signal.price
                    <= max_exposure * 100)
                => call'.ret = TRUE /\ trading_active'
         /\ (call'.op = "update_bankroll" /\ C36_InDrawdown(call'.b))
                => ~trading_active' /\ call'.ret = FALSE]_vars

\* A signal admitted after resume at 410 under a peak of 600.
C36_WitnessAdmitted ==
    /\ call.since_resume /\ call.op = "check_signal" /\ call.ret = TRUE
    /\ peak_bankroll = 600 /\ call.b = 410 /\ trading_active

\* C37: nothing writes the shared bankroll after startup.  Every step of
\* handle_signal, of the kill endpoint and of the snapshot task leaves it as it
\* was; the snapshot task therefore calls update_bankroll with the starting
\* value, so the peak stays equal to it, and every snapshot row records it.
C37_BankrollNeverWritten ==
    [][/\ bankroll' = bankroll
       /\ peak_bankroll' = bankroll
       /\ \A i \in 1..Len(pnl_snapshots') : pnl_snapshots'[i].bankroll = bankroll]_vars

\* A signal was accepted and its trade stored, the kill endpoint has run and a
\* snapshot was recorded.
C37_Witness ==
    /\ bankroll = 500 /\ peak_bankroll = 500
    /\ Len(pnl_snapshots) = 1 /\ pnl_snapshots[1].bankroll = 500
    /\ DOMAIN trades # {}
    /\ kills = "cleared"

\* C38: the kill endpoint changes no persisted order.  Neither of its steps
\* (the kill switch, then the venue's cancel_all and the answer) changes the
\* orders table, also when the venue's cancel_all emptied the venue's book: an
\* order that was Pending or Open stays so.
C38_KillChangesNoOrder ==
    [][api' # api => orders' = orders]_vars

\* The endpoint has returned after the venue emptied its book, which had
\* accepted an order, and that order is still Open in the table.
C38_Witness ==
    /\ api = "idle" /\ kills = "cleared" /\ ~trading_active
    /\ Len(posted) >= 1 /\ venue_open = {}
    /\ \E id \in DOMAIN orders : orders[id].status = "Open"

\* C39: REST polling is left only through the error of consecutive failures.
\* Of a tick of rest_poll_loop: one that sends a price stays in the loop and
\* starts the count of failures again; the count goes to 0 or up by one; the
\* loop is left only with Err, on a failure that follows max_rest_failures
\* failures in a row; and no WebSocket endpoint is tried while the loop runs.
C39_RestStep ==
    /\ adapter["binance"].pc = "rest"
    /\ \/ adapter'["binance"] # adapter["binance"]
       \/ feed'["binance"] # feed["binance"]

C39_RestLeftOnlyByFailures ==
    [][C39_RestStep =>
         /\ feed'["binance"] # feed["binance"]
                => /\ adapter'["binance"].pc = "rest"
                   /\ adapter'["binance"].failures = 0
         /\ adapter'["binance"].failures \in {0, adapter["binance"].failures + 1}
         /\ adapter'["binance"].pc # "rest"
                => /\ adapter'["binance"].pc = "sleep"
                   /\ adapter'["binance"].result = "Err"
                   /\ adapter["binance"].failures >= max_rest_failures
                   /\ adapter'["binance"].failures = adapter["binance"].failures + 1
         /\ adapter'["binance"].tried = adapter["binance"].tried]_vars

\* REST polling sent a price, went on, and was left with the error later.
C39_Witness ==
    /\ adapter["binance"].pc = "sleep" /\ adapter["binance"].result = "Err"
    /\ adapter["binance"].failures > max_rest_failures
    /\ feed["binance"].calls >= 1

\* C40: in every reachable state of the pipeline every Trade row references an
\* Order row that exists and is Open (the program as main wires it never moves
\* an order out of Open, so an order that is Pending or Failed was never Open),
\* every Order row has at most one Trade row, and an order that is Pending or
\* Failed has none; the Trade is inserted by the invocation that set its order
\* to Open, after that update.
C40_TradesReferenceOpenedOrders ==
    /\ \A t \in DOMAIN trades :
          /\ trades[t].order_id \in DOMAIN orders
          /\ status_from_row(orders[trades[t].order_id].status) = "Open"
          /\ trades[t].order_id < t
    /\ \A id \in DOMAIN orders :
          /\ Cardinality(TradesFor(id)) <= 1
          /\ status_from_row(orders[id].status) \in {"Pending", "Failed"}
                => TradesFor(id) = {}
    /\ hs.pc = "insert_trade"
          => /\ hs.order_id \in DOMAIN orders
             /\ status_from_row(orders[hs.order_id].status) = "Open"
             /\ TradesFor(hs.order_id) = {}

\* C40, witness: two trades are stored, each of its own Open order.
C40_Witness ==
    /\ Cardinality(DOMAIN trades) = 2
    /\ \A t \in DOMAIN trades : status_from_row(orders[trades[t].order_id].status) = "Open"
    /\ \A t, u \in DOMAIN trades : trades[t].order_id = trades[u].order_id => t = u

====
